---------------------------- MODULE Spec2Model ----------------------------
(***************************************************************************)
(* A model of the TCP client of the LEDENET UFO library (lufo-api) and of  *)
(* the facade that joins the TCP and the UDP channel of one device.        *)
(*                                                                         *)
(* Spec        the promise-based TcpClient (lufo-api/src/TcpClient.js)     *)
(*             with the socket events of the NodeJS runtime as environment *)
(* SpecFacade  the UFO facade with its TCP channel (src/TcpClient.js) and  *)
(*             its UDP channel                                             *)
(***************************************************************************)
EXTENDS Integers, Sequences, FiniteSets, TLC

(***************************************************************************)
(* Bounds of the model.                                                    *)
(***************************************************************************)
\* sockets created after the first one (silent reconnects)
MaxReconnects == 1
\* promises a caller that does not wait has pending at a time
MaxOutstanding == 2
\* steps in each of the three runs of proper steps of a steps argument
MaxRun == 10
\* null steps in each of the two runs between them
MaxNullRun == 5
\* setter arguments of one assembleCommand()
MaxSetArgs == 3
\* datagrams one discover() receives
MaxMessages == 3
\* bytes of the short buffers handed to _prepareBytes
MaxShort == 3
\* how far the speeds handed to the flips lie outside their range
SpeedMargin == 5

(***************************************************************************)
(* Private variables of lufo-api/src/TcpClient.js.                         *)
(***************************************************************************)
statusHeader == 129
statusRequest == <<statusHeader, 138, 139, 150>>
statusResponseSize == 14
emptyBuffer == <<>>
powerOn == <<113, 35, 15, 163>>
powerOff == <<113, 36, 15, 164>>
builtinFunctionMap ==
  << <<"sevenColorCrossFade", 37>>, <<"redGradualChange", 38>>,
     <<"greenGradualChange", 39>>, <<"blueGradualChange", 40>>,
     <<"yellowGradualChange", 41>>, <<"cyanGradualChange", 42>>,
     <<"purpleGradualChange", 43>>, <<"whiteGradualChange", 44>>,
     <<"redGreenCrossFade", 45>>, <<"redBlueCrossFade", 46>>,
     <<"greenBlueCrossFade", 47>>, <<"sevenColorStrobeFlash", 48>>,
     <<"redStrobeFlash", 49>>, <<"greenStrobeFlash", 50>>,
     <<"blueStrobeFlash", 51>>, <<"yellowStrobeFlash", 52>>,
     <<"cyanStrobeFlash", 53>>, <<"purpleStrobeFlash", 54>>,
     <<"whiteStrobeFlash", 55>>, <<"sevenColorJumpingChange", 56>>,
     <<"noFunction", 97>>, <<"postReset", 99>> >>
maxBuiltinSpeed == 100
maxCustomSteps == 16
nullStep == [red |-> 1, green |-> 2, blue |-> 3]
maxCustomSpeed == 30

\* null for a status (a record, as a status is), for an error, for a name
NullStatus == [null |-> TRUE]
NoError == "none"
NoName == ""
\* undefined for a function id, null for a promise callback
NoId == -1
NoPromise == 0
\* a string is the sequence of its characters; these are not strings
NoString == <<"undefined">>
NoPassword == <<"undefined">>
NoBuffer == [type |-> "undefined"]

(***************************************************************************)
(* Private functions.                                                      *)
(***************************************************************************)
\* lodash _.clamp(value, lower, upper)
clamp(value, lower, upper) ==
  IF value < lower THEN lower ELSE IF value > upper THEN upper ELSE value

Abs(x) == IF x < 0 THEN -x ELSE x

clampRGBW(value) == clamp(value, 0, 255)

RECURSIVE SumBytes(_)
SumBytes(buf) == IF buf = <<>> THEN 0 ELSE buf[1] + SumBytes(Tail(buf))

\* a bug: the checksum is summed before the flag is written
prepareBytesSumSkipsFlag(buf) ==
  LET newBuf == buf \o <<15, 0>>
      checksum == SumBytes(buf) % 256
  IN  [newBuf EXCEPT ![Len(newBuf)] = checksum]

\* a bug: the "remote" flag 0xf0 is written
prepareBytesRemoteFlag(buf) ==
  LET newBuf == buf \o <<240, 0>>
      checksum == SumBytes(newBuf) % 256
  IN  [newBuf EXCEPT ![Len(newBuf)] = checksum]

\* the buffer grown by two: the "local" flag 0x0f and the checksum
prepareBytes(buf) ==
  LET newBuf == buf \o <<15, 0>>
      checksum == SumBytes(newBuf) % 256
  IN  [newBuf EXCEPT ![Len(newBuf)] = checksum]

\* a bug: the speed is not clamped
builtinFlipSpeedNoClamp(speed) == Abs(speed - maxBuiltinSpeed)

builtinFlipSpeed(speed) == Abs(clamp(speed, 0, maxBuiltinSpeed) - maxBuiltinSpeed)

customFlipSpeed(speed) == Abs(clamp(speed, 0, maxCustomSpeed) - maxCustomSpeed)

isNullStep(step) ==
  /\ step.red = nullStep.red
  /\ step.green = nullStep.green
  /\ step.blue = nullStep.blue

\* builtinFunctionMap.get(name): the id, or NoId (undefined)
builtinFunctionId(name) ==
  IF \E i \in 1..Len(builtinFunctionMap) : builtinFunctionMap[i][1] = name
  THEN LET i == CHOOSE j \in 1..Len(builtinFunctionMap) : builtinFunctionMap[j][1] = name
       IN  builtinFunctionMap[i][2]
  ELSE NoId

\* the forEach of _receiveStatus: the first name of the map with this id
builtinFunctionName(mode) ==
  LET hits == {i \in 1..Len(builtinFunctionMap) : builtinFunctionMap[i][2] = mode}
  IN  IF hits = {} THEN NoName
      ELSE builtinFunctionMap[CHOOSE i \in hits : \A j \in hits : i <= j][1]

\* result.mode.startsWith('function'), over the values a mode takes
IsFunctionMode(mode) ==
  \E i \in 1..Len(builtinFunctionMap) : mode = "function:" \o builtinFunctionMap[i][1]

(***************************************************************************)
(* The decoding of a full 14-byte response in _receiveStatus: the error    *)
(* and the result handed to the status callback.                           *)
(***************************************************************************)
\* a bug: the checks do not stop at the first failure, the last one wins
decodeStatusLastWins(responseBytes) ==
  LET lastIndex == statusResponseSize - 1
      expectedChecksum == responseBytes[lastIndex + 1]
      \* the sum of the bytes with a 0 written over the last one
      actualChecksum == SumBytes(SubSeq(responseBytes, 1, lastIndex)) % 256
      err1 == IF responseBytes[1] = statusHeader
              THEN IF expectedChecksum /= actualChecksum THEN "checksum" ELSE NoError
              ELSE "header"
      power == responseBytes[3]
      err2 == IF power \notin {35, 36} THEN "power" ELSE err1
      on == (err1 = NoError /\ power = 35)
      mode == responseBytes[4]
      name == builtinFunctionName(mode)
      modeStr == IF err2 /= NoError THEN ""
                 ELSE IF mode = 98 THEN "other"
                 ELSE IF mode = 97 THEN "static"
                 ELSE IF mode = 96 THEN "custom"
                 ELSE IF name /= NoName THEN "function:" \o name
                 ELSE ""
      err3 == IF mode \notin {96, 97, 98} /\ name = NoName
              THEN "mode" ELSE err2
      speed == responseBytes[6]
      base == [raw |-> responseBytes, on |-> on, mode |-> modeStr,
               red |-> responseBytes[7], green |-> responseBytes[8],
               blue |-> responseBytes[9], white |-> responseBytes[10]]
      result == IF modeStr = "custom"
                THEN [f \in DOMAIN base \cup {"speed"} |->
                        IF f = "speed" THEN customFlipSpeed(speed - 1) ELSE base[f]]
                ELSE IF IsFunctionMode(modeStr)
                THEN [f \in DOMAIN base \cup {"speed"} |->
                        IF f = "speed" THEN builtinFlipSpeed(speed) ELSE base[f]]
                ELSE base
  IN  [err |-> err3, data |-> IF err3 = NoError THEN result ELSE NullStatus]

\* a bug: the checksums are compared without their top bit
decodeStatusWeakSum(responseBytes) ==
  LET lastIndex == statusResponseSize - 1
      expectedChecksum == responseBytes[lastIndex + 1]
      \* the sum of the bytes with a 0 written over the last one
      actualChecksum == SumBytes(SubSeq(responseBytes, 1, lastIndex)) % 256
      err1 == IF responseBytes[1] = statusHeader
              THEN IF expectedChecksum % 128 /= actualChecksum % 128
                   THEN "checksum" ELSE NoError
              ELSE "header"
      power == responseBytes[3]
      err2 == IF err1 = NoError /\ power \notin {35, 36} THEN "power" ELSE err1
      on == (err1 = NoError /\ power = 35)
      mode == responseBytes[4]
      name == builtinFunctionName(mode)
      modeStr == IF err2 /= NoError THEN ""
                 ELSE IF mode = 98 THEN "other"
                 ELSE IF mode = 97 THEN "static"
                 ELSE IF mode = 96 THEN "custom"
                 ELSE IF name /= NoName THEN "function:" \o name
                 ELSE ""
      err3 == IF err2 = NoError /\ mode \notin {96, 97, 98} /\ name = NoName
              THEN "mode" ELSE err2
      speed == responseBytes[6]
      base == [raw |-> responseBytes, on |-> on, mode |-> modeStr,
               red |-> responseBytes[7], green |-> responseBytes[8],
               blue |-> responseBytes[9], white |-> responseBytes[10]]
      result == IF modeStr = "custom"
                THEN [f \in DOMAIN base \cup {"speed"} |->
                        IF f = "speed" THEN customFlipSpeed(speed - 1) ELSE base[f]]
                ELSE IF IsFunctionMode(modeStr)
                THEN [f \in DOMAIN base \cup {"speed"} |->
                        IF f = "speed" THEN builtinFlipSpeed(speed) ELSE base[f]]
                ELSE base
  IN  [err |-> err3, data |-> IF err3 = NoError THEN result ELSE NullStatus]

\* a bug: the mode byte is looked up in the map of the functions first
decodeStatusTableFirst(responseBytes) ==
  LET lastIndex == statusResponseSize - 1
      expectedChecksum == responseBytes[lastIndex + 1]
      \* the sum of the bytes with a 0 written over the last one
      actualChecksum == SumBytes(SubSeq(responseBytes, 1, lastIndex)) % 256
      err1 == IF responseBytes[1] = statusHeader
              THEN IF expectedChecksum /= actualChecksum THEN "checksum" ELSE NoError
              ELSE "header"
      power == responseBytes[3]
      err2 == IF err1 = NoError /\ power \notin {35, 36} THEN "power" ELSE err1
      on == (err1 = NoError /\ power = 35)
      mode == responseBytes[4]
      name == builtinFunctionName(mode)
      modeStr == IF err2 /= NoError THEN ""
                 ELSE IF name /= NoName THEN "function:" \o name
                 ELSE IF mode = 98 THEN "other"
                 ELSE IF mode = 97 THEN "static"
                 ELSE IF mode = 96 THEN "custom"
                 ELSE ""
      err3 == IF err2 = NoError /\ mode \notin {96, 97, 98} /\ name = NoName
              THEN "mode" ELSE err2
      speed == responseBytes[6]
      base == [raw |-> responseBytes, on |-> on, mode |-> modeStr,
               red |-> responseBytes[7], green |-> responseBytes[8],
               blue |-> responseBytes[9], white |-> responseBytes[10]]
      result == IF modeStr = "custom"
                THEN [f \in DOMAIN base \cup {"speed"} |->
                        IF f = "speed" THEN customFlipSpeed(speed - 1) ELSE base[f]]
                ELSE IF IsFunctionMode(modeStr)
                THEN [f \in DOMAIN base \cup {"speed"} |->
                        IF f = "speed" THEN builtinFlipSpeed(speed) ELSE base[f]]
                ELSE base
  IN  [err |-> err3, data |-> IF err3 = NoError THEN result ELSE NullStatus]

decodeStatus(responseBytes) ==
  LET lastIndex == statusResponseSize - 1
      expectedChecksum == responseBytes[lastIndex + 1]
      \* the sum of the bytes with a 0 written over the last one
      actualChecksum == SumBytes(SubSeq(responseBytes, 1, lastIndex)) % 256
      err1 == IF responseBytes[1] = statusHeader
              THEN IF expectedChecksum /= actualChecksum THEN "checksum" ELSE NoError
              ELSE "header"
      power == responseBytes[3]
      err2 == IF err1 = NoError /\ power \notin {35, 36} THEN "power" ELSE err1
      on == (err1 = NoError /\ power = 35)
      mode == responseBytes[4]
      name == builtinFunctionName(mode)
      modeStr == IF err2 /= NoError THEN ""
                 ELSE IF mode = 98 THEN "other"
                 ELSE IF mode = 97 THEN "static"
                 ELSE IF mode = 96 THEN "custom"
                 ELSE IF name /= NoName THEN "function:" \o name
                 ELSE ""
      err3 == IF err2 = NoError /\ mode \notin {96, 97, 98} /\ name = NoName
              THEN "mode" ELSE err2
      speed == responseBytes[6]
      base == [raw |-> responseBytes, on |-> on, mode |-> modeStr,
               red |-> responseBytes[7], green |-> responseBytes[8],
               blue |-> responseBytes[9], white |-> responseBytes[10]]
      result == IF modeStr = "custom"
                THEN [f \in DOMAIN base \cup {"speed"} |->
                        IF f = "speed" THEN customFlipSpeed(speed - 1) ELSE base[f]]
                ELSE IF IsFunctionMode(modeStr)
                THEN [f \in DOMAIN base \cup {"speed"} |->
                        IF f = "speed" THEN builtinFlipSpeed(speed) ELSE base[f]]
                ELSE base
  IN  [err |-> err3, data |-> IF err3 = NoError THEN result ELSE NullStatus]


(***************************************************************************)
(* Inputs of the model.                                                    *)
(***************************************************************************)
\* a response of the device: 0x81 ?a POWER MODE ?b SPEED R G B W 3 0 0 CHECKSUM
MkFrame(power, mode, speed, r, g, b, w) ==
  LET body == <<statusHeader, 4, power, mode, 33, speed, r, g, b, w, 3, 0, 0>>
  IN  body \o <<SumBytes(body) % 256>>

FrameStatic == MkFrame(35, 97, 10, 1, 2, 3, 4)
FrameFunction == MkFrame(36, 38, 30, 5, 6, 7, 8)
FrameBadChecksum == [FrameStatic EXCEPT ![7] = 9]
DeviceFrames == {FrameStatic, FrameFunction, FrameBadChecksum}
\* the sizes in which the socket hands a response over
ChunkLens == {5, statusResponseSize}

RgbwArgs == {<<300, -5, 30, 40>>}
BuiltinArgs == {<<"redGradualChange", 70>>, <<"bogus", 10>>}
CustomArgs ==
  { <<"jumping", 10, <<[red |-> 9, green |-> 8, blue |-> 7], nullStep,
                       [red |-> 300, green |-> 0, blue |-> 1]>> >>,
    <<"bogus", 10, <<>> >> }

(***************************************************************************)
(* The state: the fields of a TcpClient, its net.Socket, the promises it   *)
(* has handed out and the record of the last step.                         *)
(***************************************************************************)
VARIABLES
  optCache,            \* _options.cache
  dead,                \* _dead
  connectFailed,       \* _connectFailed
  disconnectCallback,  \* _disconnectCallback: the promise whose reject it is
  statusArray,         \* _statusArray
  statusIndex,         \* _statusIndex
  statusCache,         \* _statusCache
  error,               \* _error
  statusCallback,      \* _statusCallback: the promise of the status() it closes over
  sockGen,             \* which socket _socket is: 0 the first, +1 per _createSocket
  sockState,           \* "fresh", "connecting", "open", "destroyed"
  paused,              \* socket.pause() / socket.resume()
  errListener,         \* the 'error' listener: "none", "connectFailure", "error"
  closePending,        \* the runtime will emit the socket's 'close'
  connectPromise,      \* the promise of the connect() in progress on _socket
  reqs,                \* status requests written to _socket and not answered
  inbound,             \* bytes the device sent that the socket has not delivered
  writeCbs,            \* the callbacks of socket.write(buffer, cb), not yet run
  promises,            \* the promises handed out, by id
  notes,               \* calls of _ufo._onTcpDead
  note,                \* the argument of the last one: <<error, callback>>
  attempts,            \* calls of socket.connect
  disconnectCalled,    \* disconnect() was called
  last                 \* the last step: what was called or fired, and its outcome

vars == <<optCache, dead, connectFailed, disconnectCallback, statusArray,
          statusIndex, statusCache, error, statusCallback, sockGen, sockState,
          paused, errListener, closePending, connectPromise, reqs, inbound,
          writeCbs, promises, notes, note, attempts, disconnectCalled, last>>

\* the facade (UFO) with its two channels
VARIABLES
  ufoDead,        \* UFO._dead
  tcpError,       \* UFO._tcpError
  udpError,       \* UFO._udpError
  hasCallback,    \* _options.disconnectCallback is a function
  deadEvents,     \* emissions of 'dead'
  callbacks,      \* calls of _options.disconnectCallback
  cbError,        \* the last one was called with a UFOError
  helloSent,      \* connect() has called _udpSocket.hello
  tDead,          \* _tcpSocket._dead
  tError,         \* _tcpSocket._error
  tSock,          \* its socket: "fresh", "connecting", "open", "destroyed"
  tClosePending,  \* the runtime will emit the 'close' of that socket
  tGen,           \* which socket it is: 0 the first, +1 per _createSocket
  tAttempts,      \* calls of socket.connect
  tConnCb,        \* socket.connect was given the callback of the user
  tNotes,         \* emissions of 'tcpDead'
  uDead,          \* _udpSocket._dead
  uError,         \* the error of the UDP socket
  uSock,          \* the UDP socket: "open", "closed"
  uClosePending,  \* the runtime will emit the 'close' of the UDP socket
  uNotes          \* emissions of 'udpDead'

fvars == <<ufoDead, tcpError, udpError, hasCallback, deadEvents, callbacks,
           cbError, helloSent, tDead, tError, tSock, tClosePending, tGen,
           tAttempts, tConnCb, tNotes, uDead, uError, uSock, uClosePending,
           uNotes>>

\* the arguments and results of the functions that are checked on their own
VARIABLES
  customSteps,     \* the steps argument of custom()
  customStepsOut,  \* the 16 steps custom() encodes; <<>> before it has run
  cmdName,         \* the name argument of assembleCommand()
  cmdArgs,         \* its setArgs
  cmdSend          \* the send string it returns; NoString before it has run

nvars == <<customSteps, customStepsOut>>
avars == <<cmdName, cmdArgs, cmdSend>>

\* one run of discover()
VARIABLES
  password,        \* options.password, or NoPassword
  discHello,       \* hello, the Buffer that is broadcast
  discError,       \* error
  discData,        \* data
  stopDiscover,    \* the timer: "null", "armed", "fired" or "cleared"
  udpSocket,       \* the dgram socket: "binding", "listening" or "closed"
  closeQueued,     \* close() has queued the 'close' event
  sendState,       \* socket.send: "none", "pending" or "done"
  received,        \* 'message' events so far
  parsed,          \* the strings handed to helloResponseParser
  thrown,          \* a listener or timer threw: the exception is uncaught
  discCalls,       \* invocations of callback
  cbArgs           \* the arguments of the last one: <<error, data>>

dvars == <<password, discHello, discError, discData, stopDiscover, udpSocket,
           closeQueued, sendState, received, parsed, thrown, discCalls, cbArgs>>

\* the decoding of one response
VARIABLES
  rxBase,          \* the 14 bytes of a response, as the device sent them
  rxFlip,          \* the bit flipped on the way, <<byte, bit>>, or NoFlip
  rxResult         \* the error and result of the decoding; NotDecoded before

rvars == <<rxBase, rxFlip, rxResult>>

\* one private function on its own
VARIABLES
  fnName,          \* the function
  fnArg,           \* its argument
  fnRet            \* what was returned so far, call after call

pvars == <<fnName, fnArg, fnRet>>

xvars == <<nvars, avars, dvars, rvars, pvars>>

\* the legacy client UFO_TCP (tcp/UFO_TCP.js): its fields, its net.Socket
\* and the record of its last step, as one record
VARIABLE legacy

\* no UFO_TCP is constructed
NoLegacy == [none |-> TRUE]

\* no bit is flipped; nothing is decoded yet
NoFlip == <<>>
NotDecoded == [none |-> TRUE]

\* the state as one record, so that a method is an operator on it
S ==
  [optCache |-> optCache, dead |-> dead, connectFailed |-> connectFailed,
   disconnectCallback |-> disconnectCallback, statusArray |-> statusArray,
   statusIndex |-> statusIndex, statusCache |-> statusCache, error |-> error,
   statusCallback |-> statusCallback, sockGen |-> sockGen,
   sockState |-> sockState, paused |-> paused, errListener |-> errListener,
   closePending |-> closePending, connectPromise |-> connectPromise,
   reqs |-> reqs, inbound |-> inbound, writeCbs |-> writeCbs,
   promises |-> promises, notes |-> notes, note |-> note,
   attempts |-> attempts,
   disconnectCalled |-> disconnectCalled, last |-> last]

BecomesClient(s) ==
  /\ optCache' = s.optCache
  /\ dead' = s.dead
  /\ connectFailed' = s.connectFailed
  /\ disconnectCallback' = s.disconnectCallback
  /\ statusArray' = s.statusArray
  /\ statusIndex' = s.statusIndex
  /\ statusCache' = s.statusCache
  /\ error' = s.error
  /\ statusCallback' = s.statusCallback
  /\ sockGen' = s.sockGen
  /\ sockState' = s.sockState
  /\ paused' = s.paused
  /\ errListener' = s.errListener
  /\ closePending' = s.closePending
  /\ connectPromise' = s.connectPromise
  /\ reqs' = s.reqs
  /\ inbound' = s.inbound
  /\ writeCbs' = s.writeCbs
  /\ promises' = s.promises
  /\ notes' = s.notes
  /\ note' = s.note
  /\ attempts' = s.attempts
  /\ disconnectCalled' = s.disconnectCalled
  /\ last' = s.last

Becomes(s) == BecomesClient(s) /\ UNCHANGED <<fvars, xvars, legacy>>

\* the record of a step
Step(ev, op, args, outcome, wrote, value) ==
  [ev |-> ev, op |-> op, args |-> args, outcome |-> outcome, wrote |-> wrote,
   value |-> value]

ZeroArray == [i \in 1..statusResponseSize |-> 0]

(***************************************************************************)
(* Promises. promises holds the pending ones, by id; a promise that is     *)
(* settled leaves it, and the step that settled it says how in last.       *)
(***************************************************************************)
\* the ids something still refers to: the pending promises and the closures
\* the client and the socket hold
Referenced(s) ==
  DOMAIN s.promises
    \cup {s.disconnectCallback, s.statusCallback, s.connectPromise}
    \cup {s.writeCbs[i].pid : i \in 1..Len(s.writeCbs)}
    \cup {s.promises[p].chain : p \in DOMAIN s.promises}

\* the id of the next promise: the least one nothing refers to
newId(s) ==
  CHOOSE p \in 1..(Cardinality(Referenced(s)) + 1) :
    /\ p \notin Referenced(s)
    /\ \A q \in 1..(p - 1) : q \in Referenced(s)

\* new Promise(...); chain is the promise that then()/catch() settle with it
\* (connect() chains its status()); user tells the promises given to the
\* caller from those the client keeps to itself
newPromise(s, user, chain) ==
  LET p == newId(s)
  IN  [s EXCEPT !.promises =
         [q \in DOMAIN s.promises \cup {p} |->
            IF q = p THEN [chain |-> chain, user |-> user] ELSE s.promises[q]]]

\* resolve() or reject() of promise p: nothing when it is settled already
settle(s, p, how) ==
  IF p \notin DOMAIN s.promises THEN s
  ELSE LET gone == {p, s.promises[p].chain}
       IN  [s EXCEPT !.promises =
              [q \in DOMAIN s.promises \ gone |-> s.promises[q]]]

(***************************************************************************)
(* The net.Socket of the runtime, as the client uses it.                   *)
(***************************************************************************)
\* socket.write(statusRequest): a request the device will answer, unless the
\* socket is gone
socketWriteRequest(s) ==
  IF s.sockState \in {"connecting", "open"} THEN [s EXCEPT !.reqs = @ + 1] ELSE s

\* socket.write(buffer, cb): cb waits for the flush
socketWrite(s, p, op, args) ==
  [s EXCEPT !.writeCbs =
     Append(@, [pid |-> p, op |-> op, args |-> args, gen |-> s.sockGen])]

\* socket.destroy(): a socket with a handle emits 'close' later; one that never
\* called connect() emits it or not, with the version of the runtime (emits)
socketDestroy(s, emits) ==
  IF s.sockState \in {"connecting", "open"}
  THEN [s EXCEPT !.sockState = "destroyed", !.closePending = TRUE]
  ELSE IF s.sockState = "fresh"
  THEN [s EXCEPT !.sockState = "destroyed", !.closePending = emits]
  ELSE s

(***************************************************************************)
(* TcpClient (lufo-api/src/TcpClient.js).                                  *)
(***************************************************************************)
createSocket(s) ==
  [s EXCEPT !.dead = FALSE,
            !.connectFailed = FALSE,
            !.disconnectCallback = NoPromise,
            !.statusArray = ZeroArray,
            !.statusIndex = 0,
            !.statusCache = NullStatus,
            !.sockGen = @ + 1,
            !.sockState = "fresh",
            !.errListener = "none",
            !.closePending = FALSE,
            !.connectPromise = NoPromise,
            !.reqs = 0,
            !.inbound = <<>>,
            !.error = NoError,
            !.paused = TRUE]

\* a bug: rgbw() forgets that the mode is static afterwards
updateStatusCacheSkipMode(s, path, value) ==
  IF s.statusCache /= NullStatus /\ path /= "mode"
  THEN [s EXCEPT !.statusCache =
          [f \in DOMAIN s.statusCache \cup {path} |->
             IF f = path THEN value ELSE s.statusCache[f]]]
  ELSE s

\* a bug: the update makes a cache when there is none
updateStatusCacheCreates(s, path, value) ==
  [s EXCEPT !.statusCache =
     [f \in (DOMAIN s.statusCache \ {"null"}) \cup {path} |->
        IF f = path THEN value ELSE s.statusCache[f]]]

updateStatusCache(s, path, value) ==
  IF s.statusCache /= NullStatus
  THEN [s EXCEPT !.statusCache =
          [f \in DOMAIN s.statusCache \cup {path} |->
             IF f = path THEN value ELSE s.statusCache[f]]]
  ELSE s

\* a bug: the call without argument clears nothing
unsetStatusCacheKeeps(s, path) ==
  IF path /= NoName /\ s.statusCache /= NullStatus
  THEN [s EXCEPT !.statusCache =
          [f \in DOMAIN s.statusCache \ {path} |-> s.statusCache[f]]]
  ELSE s

\* a bug: an element of the cache is never deleted
unsetStatusCacheKeepsField(s, path) ==
  IF path = NoName THEN [s EXCEPT !.statusCache = NullStatus] ELSE s

\* path NoName is the call without argument
unsetStatusCache(s, path) ==
  IF path = NoName THEN [s EXCEPT !.statusCache = NullStatus]
  ELSE IF s.statusCache /= NullStatus
  THEN [s EXCEPT !.statusCache =
          [f \in DOMAIN s.statusCache \ {path} |-> s.statusCache[f]]]
  ELSE s

writePromise(s, p, op, args) ==
  socketWrite([s EXCEPT !.disconnectCallback = p], p, op, args)

\* variant: a failed status leaves the cache as it is
statusCallbackRunKeepsCache(s, p, err, data) ==
  LET s1 == [s EXCEPT !.statusCallback = NoPromise, !.paused = TRUE]
  IN  IF err /= NoError
      THEN [settle(s1, p, "rejected")
              EXCEPT !.last = Step("data", "status", <<err>>, "rejected", <<>>, NullStatus)]
      ELSE [settle([s1 EXCEPT !.disconnectCallback = NoPromise,
                              !.statusCache = data], p, "resolved")
              EXCEPT !.last = Step("data", "status", <<err>>, "resolved", <<>>, data)]

\* a bug: the callback does not pause the socket
statusCallbackRunNoPause(s, p, err, data) ==
  LET s1 == [s EXCEPT !.statusCallback = NoPromise]
  IN  IF err /= NoError
      THEN [settle([s1 EXCEPT !.statusCache = NullStatus], p, "rejected")
              EXCEPT !.last = Step("data", "status", <<err>>, "rejected", <<>>, NullStatus)]
      ELSE [settle([s1 EXCEPT !.disconnectCallback = NoPromise,
                              !.statusCache = data], p, "resolved")
              EXCEPT !.last = Step("data", "status", <<err>>, "resolved", <<>>, data)]

\* the callback status() installs as _statusCallback, for its promise p
statusCallbackRun(s, p, err, data) ==
  LET s1 == [s EXCEPT !.statusCallback = NoPromise, !.paused = TRUE]
  IN  IF err /= NoError
      THEN [settle([s1 EXCEPT !.statusCache = NullStatus], p, "rejected")
              EXCEPT !.last = Step("data", "status", <<err>>, "rejected", <<>>, NullStatus)]
      ELSE [settle([s1 EXCEPT !.disconnectCallback = NoPromise,
                              !.statusCache = data], p, "resolved")
              EXCEPT !.last = Step("data", "status", <<err>>, "resolved", <<>>, data)]

\* a bug: the data is written at the start of the array
receiveStatusAtZero(s, data) ==
  IF s.error /= NoError THEN s
  ELSE LET oldIndex == s.statusIndex
           newIndex == oldIndex + Len(data)
           filled == [i \in 1..statusResponseSize |->
                        IF i <= Len(data)
                        THEN data[i] ELSE s.statusArray[i]]
       IN  IF newIndex >= statusResponseSize
           THEN LET d == decodeStatus(filled)
                    s1 == [s EXCEPT !.statusArray = ZeroArray]
                    s2 == IF s1.statusCallback /= NoPromise
                          THEN statusCallbackRun(s1, s1.statusCallback, d.err, d.data)
                          ELSE s1
                IN  [s2 EXCEPT !.statusIndex = 0]
           ELSE [s EXCEPT !.statusArray = filled, !.statusIndex = newIndex]

receiveStatus(s, data) ==
  IF s.error /= NoError THEN s
  ELSE LET oldIndex == s.statusIndex
           newIndex == oldIndex + Len(data)
           filled == [i \in 1..statusResponseSize |->
                        IF i > oldIndex /\ i <= newIndex
                        THEN data[i - oldIndex] ELSE s.statusArray[i]]
       IN  IF newIndex >= statusResponseSize
           THEN LET d == decodeStatus(filled)
                    s1 == [s EXCEPT !.statusArray = ZeroArray]
                    s2 == IF s1.statusCallback /= NoPromise
                          THEN statusCallbackRun(s1, s1.statusCallback, d.err, d.data)
                          ELSE s1
                IN  [s2 EXCEPT !.statusIndex = 0]
           ELSE [s EXCEPT !.statusArray = filled, !.statusIndex = newIndex]

\* the request of status(), common to status and its variants
statusRequested(s, force, chain) ==
  LET p == newId(s)
      s1 == newPromise(s, chain = NoPromise, chain)
  IN  socketWriteRequest(
        [s1 EXCEPT !.paused = FALSE,
                   !.statusCallback = p,
                   !.disconnectCallback = p,
                   !.last = Step("call", "status", <<force>>,
                                 "pending", statusRequest, NullStatus)])

\* a bug: status() without the check of _dead
statusNoDeadCheck(s, force, chain) ==
  IF s.optCache /\ ~force /\ s.statusCache /= NullStatus
     /\ s.statusCache.mode = "static"
  THEN [settle(s, chain, "resolved") EXCEPT
          !.last = Step("call", "status", <<force>>, "resolved", <<>>, s.statusCache)]
  ELSE statusRequested(s, force, chain)

\* a bug: status() answers from the cache although force is true
statusIgnoresForce(s, force, chain) ==
  IF s.dead
  THEN [settle(s, chain, "resolved") EXCEPT
          !.last = Step("call", "status", <<force>>, "resolved", <<>>, NullStatus)]
  ELSE IF s.optCache /\ s.statusCache /= NullStatus /\ s.statusCache.mode = "static"
  THEN [settle(s, chain, "resolved") EXCEPT
          !.last = Step("call", "status", <<force>>, "resolved", <<>>, s.statusCache)]
  ELSE statusRequested(s, force, chain)

status(s, force, chain) ==
  IF s.dead
  THEN [settle(s, chain, "resolved") EXCEPT
          !.last = Step("call", "status", <<force>>, "resolved", <<>>, NullStatus)]
  ELSE LET cacheIsEnabled == s.optCache
           cacheExists == s.statusCache /= NullStatus
           isStatic == cacheExists /\ s.statusCache.mode = "static"
       IN  IF cacheIsEnabled /\ ~force /\ cacheExists /\ isStatic
           THEN [settle(s, chain, "resolved") EXCEPT
                   !.last = Step("call", "status", <<force>>, "resolved", <<>>,
                                 s.statusCache)]
           ELSE statusRequested(s, force, chain)

\* a bug: connect() without the check of _dead
connectNoDeadCheck(s, user) ==
  [newPromise(s, user, NoPromise) EXCEPT
     !.errListener = "connectFailure",
     !.sockState = "connecting",
     !.connectPromise = newId(s),
     !.attempts = @ + 1,
     !.last = Step("call", "connect", <<>>, "pending", <<>>, NullStatus)]

connect(s, user) ==
  IF s.dead
  THEN [s EXCEPT !.last = Step("call", "connect", <<>>, "resolved", <<>>, NullStatus)]
  ELSE LET p == newId(s)
       IN  [newPromise(s, user, NoPromise) EXCEPT
              !.errListener = "connectFailure",
              !.sockState = "connecting",
              !.connectPromise = p,
              !.attempts = @ + 1,
              !.last = Step("call", "connect", <<>>, "pending", <<>>, NullStatus)]

\* a bug: the connect listener resolves at once, cache or not
connectedResolvesEarly(s) ==
  LET s1 == [s EXCEPT !.sockState = "open", !.errListener = "error"]
  IN  [settle(s1, s1.connectPromise, "resolved") EXCEPT
         !.last = Step("connected", "connect", <<>>, "resolved", <<>>, NullStatus)]

\* the connect listener of socket.connect(options, ...)
connected(s) ==
  LET s1 == [s EXCEPT !.sockState = "open", !.errListener = "error"]
  IN  IF s1.optCache
      THEN status(s1, FALSE, s1.connectPromise)
      ELSE [settle(s1, s1.connectPromise, "resolved") EXCEPT
              !.last = Step("connected", "connect", <<>>, "resolved", <<>>, NullStatus)]

\* the 'error' listener while connecting
connectFailure(s) ==
  [settle([s EXCEPT !.connectFailed = TRUE], s.connectPromise, "rejected") EXCEPT
     !.last = Step("error", "connect", <<>>, "rejected", <<>>, NullStatus)]

\* the 'error' listener once connected
errorListener(s) == [s EXCEPT !.error = "err"]

\* the end of _closeSocket when it does not reconnect
markDead(s) ==
  [s EXCEPT !.dead = TRUE,
            !.notes = @ + 1,
            !.note = <<s.error, s.disconnectCallback>>]

\* a bug: the close handler makes the new socket and does not connect it
closeSocketNoConnect(s, emits) ==
  IF s.connectFailed THEN s
  ELSE LET reconnect == ~s.dead /\ s.error = NoError
           s1 == socketDestroy(s, emits)
       IN  IF reconnect THEN createSocket(s1) ELSE markDead(s1)

\* a bug: the close handler without the check of _connectFailed
closeSocketNoFailCheck(s, emits) ==
  LET reconnect == ~s.dead /\ s.error = NoError
      s1 == socketDestroy(s, emits)
  IN  IF reconnect THEN connect(createSocket(s1), FALSE) ELSE markDead(s1)

closeSocket(s, emits) ==
  IF s.connectFailed THEN s
  ELSE LET reconnect == ~s.dead /\ s.error = NoError
           s1 == socketDestroy(s, emits)
       IN  IF reconnect
           THEN connect(createSocket(s1), FALSE)
           ELSE markDead(s1)

disconnect(s, emits) ==
  IF s.dead THEN s
  ELSE closeSocket([s EXCEPT !.dead = TRUE], emits)

on(s) ==
  IF s.dead
  THEN [s EXCEPT !.last = Step("call", "on", <<>>, "resolved", <<>>, NullStatus)]
  ELSE [writePromise(newPromise(s, TRUE, NoPromise), newId(s), "on", <<>>) EXCEPT
          !.last = Step("call", "on", <<>>, "pending", powerOn, NullStatus)]

off(s) ==
  IF s.dead
  THEN [s EXCEPT !.last = Step("call", "off", <<>>, "resolved", <<>>, NullStatus)]
  ELSE [writePromise(newPromise(s, TRUE, NoPromise), newId(s), "off", <<>>) EXCEPT
          !.last = Step("call", "off", <<>>, "pending", powerOff, NullStatus)]

rgbwData(a) ==
  prepareBytes(<<49, clampRGBW(a[1]), clampRGBW(a[2]), clampRGBW(a[3]),
                 clampRGBW(a[4]), 0>>)

rgbw(s, a) ==
  IF s.dead
  THEN [s EXCEPT !.last = Step("call", "rgbw", a, "resolved", <<>>, NullStatus)]
  ELSE [writePromise(newPromise(s, TRUE, NoPromise), newId(s), "rgbw", a) EXCEPT
          !.last = Step("call", "rgbw", a, "pending", rgbwData(a), NullStatus)]

builtinData(a) ==
  prepareBytes(<<97, builtinFunctionId(a[1]), builtinFlipSpeed(a[2])>>)

builtin(s, a) ==
  IF s.dead
  THEN [s EXCEPT !.last = Step("call", "builtin", a, "resolved", <<>>, NullStatus)]
  ELSE IF builtinFunctionId(a[1]) = NoId
  THEN [s EXCEPT !.last = Step("call", "builtin", a, "rejected", <<>>, NullStatus)]
  ELSE [writePromise(newPromise(s, TRUE, NoPromise), newId(s), "builtin", a)
          EXCEPT !.last = Step("call", "builtin", a, "pending", builtinData(a),
                               NullStatus)]

customModeId(mode) ==
  CASE mode = "gradual" -> 58
    [] mode = "jumping" -> 59
    [] mode = "strobe" -> 60
    [] OTHER -> NoId

\* variant: the list is cut to 16 before the null steps are dropped
stepsCopyCutFirst(steps) ==
  LET cut == SubSeq(steps, 1, IF Len(steps) < maxCustomSteps THEN Len(steps)
                              ELSE maxCustomSteps)
      kept == SelectSeq(cut, LAMBDA st : ~isNullStep(st))
  IN  kept \o [i \in 1..(maxCustomSteps - Len(kept)) |-> nullStep]

\* steps.filter(s => !_isNullStep(s)).slice(0, 16), padded with nullStep
stepsCopy(steps) ==
  LET kept == SelectSeq(steps, LAMBDA st : ~isNullStep(st))
      cut == SubSeq(kept, 1, IF Len(kept) < maxCustomSteps THEN Len(kept)
                             ELSE maxCustomSteps)
  IN  cut \o [i \in 1..(maxCustomSteps - Len(cut)) |-> nullStep]

RECURSIVE StepBytes(_)
StepBytes(steps) ==
  IF steps = <<>> THEN <<>>
  ELSE <<clampRGBW(steps[1].red), clampRGBW(steps[1].green),
         clampRGBW(steps[1].blue), 0>> \o StepBytes(Tail(steps))

customData(a) ==
  prepareBytes(<<81>> \o StepBytes(stepsCopy(a[3]))
               \o <<customFlipSpeed(a[2]) + 1, customModeId(a[1]), 255>>)

\* variant: the mode is validated after the cache has been dropped
customValidatesLate(s, a) ==
  IF s.dead
  THEN [s EXCEPT !.last = Step("call", "custom", a, "resolved", <<>>, NullStatus)]
  ELSE IF customModeId(a[1]) = NoId
  THEN [s EXCEPT !.statusCache = NullStatus,
                 !.last = Step("call", "custom", a, "rejected", <<>>, NullStatus)]
  ELSE [writePromise(newPromise(s, TRUE, NoPromise), newId(s), "custom", a)
          EXCEPT !.last = Step("call", "custom", a, "pending", customData(a),
                               NullStatus)]

custom(s, a) ==
  IF s.dead
  THEN [s EXCEPT !.last = Step("call", "custom", a, "resolved", <<>>, NullStatus)]
  ELSE IF customModeId(a[1]) = NoId
  THEN [s EXCEPT !.last = Step("call", "custom", a, "rejected", <<>>, NullStatus)]
  ELSE [writePromise(newPromise(s, TRUE, NoPromise), newId(s), "custom", a)
          EXCEPT !.last = Step("call", "custom", a, "pending", customData(a),
                               NullStatus)]

\* the callback _writePromise gives to socket.write, with the resolve of the
\* operation that wrote
writeCallback(s, cb) ==
  LET s1 == [s EXCEPT !.disconnectCallback = NoPromise]
      a == cb.args
      s2 == CASE cb.op = "on" -> updateStatusCache(s1, "on", TRUE)
              [] cb.op = "off" -> updateStatusCache(s1, "on", FALSE)
              [] cb.op = "rgbw" ->
                   updateStatusCache(
                     updateStatusCache(
                       updateStatusCache(
                         updateStatusCache(
                           unsetStatusCache(
                             updateStatusCache(
                               updateStatusCache(s1, "raw", rgbwData(a)),
                               "mode", "static"),
                             "speed"),
                           "red", clampRGBW(a[1])),
                         "green", clampRGBW(a[2])),
                       "blue", clampRGBW(a[3])),
                     "white", clampRGBW(a[4]))
              [] cb.op \in {"builtin", "custom"} -> unsetStatusCache(s1, NoName)
  IN  [settle(s2, cb.pid, "resolved") EXCEPT
         !.last = Step("written", cb.op, a, "resolved", <<>>, NullStatus)]


(***************************************************************************)
(* The initial state: new TcpClient(ufo, options), that is _createSocket() *)
(* on an object without fields.                                            *)
(***************************************************************************)
Init ==
  /\ optCache \in BOOLEAN
  /\ dead = FALSE
  /\ connectFailed = FALSE
  /\ disconnectCallback = NoPromise
  /\ statusArray = ZeroArray
  /\ statusIndex = 0
  /\ statusCache = NullStatus
  /\ error = NoError
  /\ statusCallback = NoPromise
  /\ sockGen = 0
  /\ sockState = "fresh"
  /\ paused = TRUE
  /\ errListener = "none"
  /\ closePending = FALSE
  /\ connectPromise = NoPromise
  /\ reqs = 0
  /\ inbound = <<>>
  /\ writeCbs = <<>>
  /\ promises = << >>
  /\ notes = 0
  /\ note = <<>>
  /\ attempts = 0
  /\ disconnectCalled = FALSE
  /\ last = Step("new", "", <<>>, "", <<>>, NullStatus)
  \* the facade of SpecFacade is not part of Spec: no UFO is constructed
  /\ ufoDead = FALSE /\ tcpError = NoError /\ udpError = NoError
  /\ hasCallback = FALSE /\ deadEvents = 0 /\ callbacks = 0 /\ cbError = FALSE
  /\ helloSent = FALSE
  /\ tDead = FALSE /\ tError = NoError /\ tSock = "fresh"
  /\ tClosePending = FALSE /\ tGen = 0 /\ tAttempts = 0 /\ tConnCb = FALSE
  /\ tNotes = 0
  /\ uDead = FALSE /\ uError = NoError /\ uSock = "open"
  /\ uClosePending = FALSE /\ uNotes = 0
  \* no function is checked on its own and discover() is not called
  /\ customSteps = <<>> /\ customStepsOut = <<>> /\ legacy = NoLegacy
  /\ rxBase = <<>> /\ rxFlip = NoFlip /\ rxResult = NotDecoded
  /\ fnName = NoName /\ fnArg = <<>> /\ fnRet = <<>>
  /\ cmdName = NoName /\ cmdArgs = <<>> /\ cmdSend = NoString
  /\ password = NoPassword /\ discHello = NoBuffer /\ discError = NoError
  /\ discData = <<>> /\ stopDiscover = "null" /\ udpSocket = "none"
  /\ closeQueued = FALSE /\ sendState = "none" /\ received = 0
  /\ parsed = <<>> /\ thrown = FALSE /\ discCalls = 0 /\ cbArgs = <<>>

(***************************************************************************)
(* The calls of the API. The caller is the one the client is written for:  *)
(* it waits for the promise of a call before it makes the next call, and   *)
(* it calls an operation that writes once connect() was called.            *)
(***************************************************************************)
Waiting == {p \in DOMAIN promises : promises[p].user}
CanCall == dead \/ Waiting = {}
CanWrite == dead \/ sockState /= "fresh"

CallConnect ==
  /\ CanCall
  /\ dead \/ sockState = "fresh"
  /\ Becomes(connect(S, TRUE))

CallDisconnect ==
  \E emits \in BOOLEAN :
    Becomes([disconnect(S, emits) EXCEPT
               !.disconnectCalled = TRUE,
               !.last = Step("call", "disconnect", <<>>, "", <<>>, NullStatus)])

CallStatus ==
  \E force \in BOOLEAN :
    /\ CanCall /\ CanWrite
    /\ Becomes(status(S, force, NoPromise))

CallOn == CanCall /\ CanWrite /\ Becomes(on(S))

CallOff == CanCall /\ CanWrite /\ Becomes(off(S))

CallRgbw == \E a \in RgbwArgs : CanCall /\ CanWrite /\ Becomes(rgbw(S, a))

CallBuiltin == \E a \in BuiltinArgs : CanCall /\ CanWrite /\ Becomes(builtin(S, a))

CallCustom == \E a \in CustomArgs : CanCall /\ CanWrite /\ Becomes(custom(S, a))

(***************************************************************************)
(* The events of the socket.                                               *)
(***************************************************************************)
\* the connection is made: the connect listener runs
ConnectOk ==
  /\ sockState = "connecting"
  /\ Becomes(connected(S))

\* the connection fails: 'error' to connectFailure, 'close' to follow
ConnectFail ==
  /\ sockState = "connecting"
  /\ Becomes(connectFailure([S EXCEPT !.sockState = "destroyed",
                                      !.closePending = TRUE]))

\* the device closes an idle connection: 'close' to follow, without 'error'
PeerClose ==
  /\ sockState = "open"
  /\ sockGen < MaxReconnects
  /\ Becomes([S EXCEPT !.sockState = "destroyed", !.closePending = TRUE])

\* the connection breaks: 'error' to the error listener, 'close' to follow
SocketError ==
  /\ sockState = "open"
  /\ Becomes(errorListener([S EXCEPT !.sockState = "destroyed",
                                     !.closePending = TRUE]))

\* the 'close' of the socket
CloseEvent ==
  /\ closePending
  /\ Becomes([closeSocket([S EXCEPT !.closePending = FALSE], FALSE) EXCEPT
                !.last = Step("close", "", <<>>, "", <<>>, NullStatus)])

\* the device answers a status request
DeviceRespond ==
  \E f \in DeviceFrames :
    /\ sockState = "open"
    /\ reqs > 0
    /\ inbound = <<>>
    /\ Becomes([S EXCEPT !.reqs = @ - 1, !.inbound = f])

\* 'data': the next bytes of the answer, when the socket is not paused
Data ==
  \E k \in ChunkLens :
    /\ sockState = "open"
    /\ ~paused
    /\ inbound /= <<>>
    /\ LET n == IF k < Len(inbound) THEN k ELSE Len(inbound)
       IN  Becomes(receiveStatus(
                     [S EXCEPT !.inbound = SubSeq(inbound, n + 1, Len(inbound)),
                               !.last = Step("data", "", <<>>, "", <<>>, NullStatus)],
                     SubSeq(inbound, 1, n)))

\* a write is flushed: its callback runs
WriteDone ==
  /\ sockState = "open"
  /\ writeCbs /= <<>>
  /\ Head(writeCbs).gen = sockGen
  /\ Becomes(writeCallback([S EXCEPT !.writeCbs = Tail(@)], Head(writeCbs)))

\* the socket of a write is gone: the runtime calls the callback with an
\* error, which the callback does not look at
WriteAbort ==
  /\ writeCbs /= <<>>
  /\ Head(writeCbs).gen /= sockGen \/ sockState = "destroyed"
  /\ Becomes([writeCallback([S EXCEPT !.writeCbs = Tail(@)], Head(writeCbs))
                EXCEPT !.last.ev = "aborted"])

\* the socket of a write is gone: the runtime never calls the callback
WriteDrop ==
  /\ writeCbs /= <<>>
  /\ Head(writeCbs).gen /= sockGen \/ sockState = "destroyed"
  /\ Becomes([S EXCEPT !.writeCbs = Tail(@)])

Next ==
  \/ CallConnect
  \/ CallDisconnect
  \/ CallStatus
  \/ CallOn
  \/ CallOff
  \/ CallRgbw
  \/ CallBuiltin
  \/ CallCustom
  \/ ConnectOk
  \/ ConnectFail
  \/ PeerClose
  \/ SocketError
  \/ CloseEvent
  \/ DeviceRespond
  \/ Data
  \/ WriteDone
  \/ WriteAbort
  \/ WriteDrop

Spec == Init /\ [][Next]_<<vars, fvars, xvars, legacy>>

\* the 'close' of a socket that is gone is emitted
SpecFair == Spec /\ WF_<<vars, fvars, xvars, legacy>>(CloseEvent)

(***************************************************************************)
(* A caller that does not wait: it calls status() again while the promise  *)
(* of an earlier status() is pending.                                      *)
(***************************************************************************)
CallStatusAgain ==
  \E force \in BOOLEAN :
    /\ ~dead /\ sockState = "open"
    /\ Waiting /= {} /\ Cardinality(Waiting) < MaxOutstanding
    /\ statusCallback \in Waiting
    /\ Becomes(status(S, force, NoPromise))

NextConcurrent ==
  \/ Next
  \/ CallStatusAgain

SpecConcurrent == Init /\ [][NextConcurrent]_<<vars, fvars, xvars, legacy>>

(***************************************************************************)
(* The legacy client UFO_TCP (tcp/UFO_TCP.js), next to a TcpClient without *)
(* cache: the same calls are made on both and the same events happen to    *)
(* both sockets. The modules UFO_TCP.js requires for its frames (Power,    *)
(* TCPUtils, Utils, Customs, Builtins) and for the 'data' listener         *)
(* (Status) are not part of the sources at hand: the frames are those of   *)
(* TcpClient.js, builtin() is called with names of the table only, and no  *)
(* status response is delivered.                                           *)
(***************************************************************************)
LStep(ev, op, outcome, wrote) ==
  [ev |-> ev, op |-> op, outcome |-> outcome, wrote |-> wrote]

UFO_TCP_createSocket(l) ==
  [l EXCEPT !.dead = FALSE, !.sockGen = @ + 1, !.sockState = "fresh",
            !.error = NoError, !.paused = TRUE, !.closePending = FALSE]

\* new UFO_TCP(options)
UFO_TCP_new ==
  [dead |-> FALSE, error |-> NoError, statusCallback |-> FALSE, sockGen |-> 0,
   sockState |-> "fresh", closePending |-> FALSE, paused |-> TRUE,
   attempts |-> 0, connectCallback |-> FALSE, writeCbs |-> <<>>,
   disconnects |-> 0, note |-> NoError,
   last |-> LStep("new", "", "", <<>>)]

\* isDead(ufoTcp, callback) is true: the callback gets an Error
UFO_TCP_isDead(l, op) == [l EXCEPT !.last = LStep("call", op, "error", <<>>)]

UFO_TCP_connect(l, user) ==
  IF l.dead THEN (IF user THEN UFO_TCP_isDead(l, "connect") ELSE l)
  ELSE [l EXCEPT !.sockState = "connecting", !.attempts = @ + 1,
                 !.connectCallback = user,
                 !.last = LStep("call", "connect", "pending", <<>>)]

\* the 'close' listener
UFO_TCP_closeSocket(l) ==
  LET err == IF ~l.dead THEN l.error ELSE NoError
      reconnect == ~l.dead /\ err = NoError
      l1 == [l EXCEPT !.sockState = "destroyed",
                      !.last = LStep("close", "", "", <<>>)]
  IN  IF reconnect
      THEN [UFO_TCP_connect(UFO_TCP_createSocket(l1), FALSE) EXCEPT
              !.last = LStep("close", "", "", <<>>)]
      ELSE [l1 EXCEPT !.disconnects = @ + 1, !.note = err]

\* socket.end(): a connected socket closes when the peer has answered; one
\* that never called connect() emits 'close' or not, with the runtime
UFO_TCP_disconnect(l, emits) ==
  IF l.dead THEN [l EXCEPT !.last = LStep("call", "disconnect", "", <<>>)]
  ELSE [l EXCEPT !.dead = TRUE,
                 !.closePending = IF l.sockState = "fresh" THEN emits
                                  ELSE IF l.sockState = "destroyed" THEN @
                                  ELSE TRUE,
                 !.sockState = IF l.sockState \in {"connecting", "open"}
                               THEN "ended" ELSE @,
                 !.last = LStep("call", "disconnect", "", <<>>)]

\* this._socket.write(bytes, callback)
UFO_TCP_write(l, op, bytes) ==
  [l EXCEPT !.writeCbs = Append(@, [gen |-> l.sockGen, op |-> op]),
            !.last = LStep("call", op, "pending", bytes)]

UFO_TCP_status(l) ==
  IF l.dead THEN UFO_TCP_isDead(l, "status")
  ELSE [l EXCEPT !.paused = FALSE, !.statusCallback = TRUE,
                 !.last = LStep("call", "status", "pending", statusRequest)]

UFO_TCP_on(l) ==
  IF l.dead THEN UFO_TCP_isDead(l, "on") ELSE UFO_TCP_write(l, "on", powerOn)

UFO_TCP_off(l) ==
  IF l.dead THEN UFO_TCP_isDead(l, "off") ELSE UFO_TCP_write(l, "off", powerOff)

UFO_TCP_rgbw(l, a) ==
  IF l.dead THEN UFO_TCP_isDead(l, "rgbw")
  ELSE UFO_TCP_write(l, "rgbw", rgbwData(a))

UFO_TCP_builtin(l, a) ==
  IF l.dead THEN UFO_TCP_isDead(l, "builtin")
  ELSE UFO_TCP_write(l, "builtin", builtinData(a))

\* an invalid mode gives the callback an Error and goes on: modeId is
\* undefined and writeUInt8(undefined) writes 0
UFO_TCP_custom(l, a) ==
  IF l.dead THEN UFO_TCP_isDead(l, "custom")
  ELSE LET valid == customModeId(a[1]) /= NoId
           modeId == IF valid THEN customModeId(a[1]) ELSE 0
           bytes == prepareBytes(<<81>> \o StepBytes(stepsCopy(a[3]))
                                 \o <<customFlipSpeed(a[2]) + 1, modeId, 255>>)
       IN  [UFO_TCP_write(l, "custom", bytes) EXCEPT
              !.last.outcome = IF valid THEN "pending" ELSE "error"]

\* the listeners of the socket
UFO_TCP_connected(l) ==
  [l EXCEPT !.sockState = "open", !.connectCallback = FALSE,
            !.last = LStep("connect", "connect",
                           IF l.connectCallback THEN "ok" ELSE "", <<>>)]

UFO_TCP_errorListener(l) ==
  [l EXCEPT !.error = "socket", !.sockState = "destroyed",
            !.closePending = TRUE, !.last = LStep("error", "", "", <<>>)]

UFO_TCP_peerClose(l) ==
  [l EXCEPT !.sockState = "destroyed", !.closePending = TRUE,
            !.last = LStep("end", "", "", <<>>)]

\* the callback of a write: with an error when the socket is gone
UFO_TCP_writeCallback(l, failed) ==
  [l EXCEPT !.writeCbs = Tail(@),
            !.last = LStep(IF failed THEN "aborted" ELSE "written",
                           Head(l.writeCbs).op,
                           IF failed THEN "error" ELSE "ok", <<>>)]

ValidBuiltinArgs == {a \in BuiltinArgs : builtinFunctionId(a[1]) /= NoId}

LegacyInit ==
  /\ legacy = UFO_TCP_new
  /\ rxBase = <<>> /\ rxFlip = NoFlip /\ rxResult = NotDecoded
  /\ fnName = NoName /\ fnArg = <<>> /\ fnRet = <<>>
  /\ optCache = FALSE
  /\ dead = FALSE
  /\ connectFailed = FALSE
  /\ disconnectCallback = NoPromise
  /\ statusArray = ZeroArray
  /\ statusIndex = 0
  /\ statusCache = NullStatus
  /\ error = NoError
  /\ statusCallback = NoPromise
  /\ sockGen = 0
  /\ sockState = "fresh"
  /\ paused = TRUE
  /\ errListener = "none"
  /\ closePending = FALSE
  /\ connectPromise = NoPromise
  /\ reqs = 0
  /\ inbound = <<>>
  /\ writeCbs = <<>>
  /\ promises = << >>
  /\ notes = 0
  /\ note = <<>>
  /\ attempts = 0
  /\ disconnectCalled = FALSE
  /\ last = Step("new", "", <<>>, "", <<>>, NullStatus)
  \* no UFO is constructed, no function is checked on its own
  /\ ufoDead = FALSE /\ tcpError = NoError /\ udpError = NoError
  /\ hasCallback = FALSE /\ deadEvents = 0 /\ callbacks = 0 /\ cbError = FALSE
  /\ helloSent = FALSE
  /\ tDead = FALSE /\ tError = NoError /\ tSock = "fresh"
  /\ tClosePending = FALSE /\ tGen = 0 /\ tAttempts = 0 /\ tConnCb = FALSE
  /\ tNotes = 0
  /\ uDead = FALSE /\ uError = NoError /\ uSock = "open"
  /\ uClosePending = FALSE /\ uNotes = 0
  /\ customSteps = <<>> /\ customStepsOut = <<>>
  /\ cmdName = NoName /\ cmdArgs = <<>> /\ cmdSend = NoString
  /\ password = NoPassword /\ discHello = NoBuffer /\ discError = NoError
  /\ discData = <<>> /\ stopDiscover = "null" /\ udpSocket = "none"
  /\ closeQueued = FALSE /\ sendState = "none" /\ received = 0
  /\ parsed = <<>> /\ thrown = FALSE /\ discCalls = 0 /\ cbArgs = <<>>

\* both clients take the step s, l
Both(s, l) ==
  /\ BecomesClient(s)
  /\ legacy' = l
  /\ UNCHANGED <<fvars, xvars>>

\* the caller of the legacy client waits for its callback as well
LegacyCanCall ==
  /\ legacy.dead \/ (legacy.writeCbs = <<>> /\ ~legacy.connectCallback
                      /\ ~legacy.statusCallback)
  /\ legacy.dead \/ legacy.sockState /= "fresh"

BothConnect ==
  /\ CanCall /\ (dead \/ sockState = "fresh")
  /\ legacy.dead \/ legacy.sockState = "fresh"
  /\ Both(connect(S, TRUE), UFO_TCP_connect(legacy, TRUE))

BothDisconnect ==
  \E emits \in BOOLEAN :
    Both([disconnect(S, emits) EXCEPT
            !.disconnectCalled = TRUE,
            !.last = Step("call", "disconnect", <<>>, "", <<>>, NullStatus)],
         UFO_TCP_disconnect(legacy, emits))

BothStatus ==
  /\ CanCall /\ CanWrite /\ LegacyCanCall
  /\ Both(status(S, TRUE, NoPromise), UFO_TCP_status(legacy))

BothOn ==
  /\ CanCall /\ CanWrite /\ LegacyCanCall
  /\ Both(on(S), UFO_TCP_on(legacy))

BothOff ==
  /\ CanCall /\ CanWrite /\ LegacyCanCall
  /\ Both(off(S), UFO_TCP_off(legacy))

BothRgbw ==
  \E a \in RgbwArgs :
    /\ CanCall /\ CanWrite /\ LegacyCanCall
    /\ Both(rgbw(S, a), UFO_TCP_rgbw(legacy, a))

BothBuiltin ==
  \E a \in ValidBuiltinArgs :
    /\ CanCall /\ CanWrite /\ LegacyCanCall
    /\ Both(builtin(S, a), UFO_TCP_builtin(legacy, a))

BothCustom ==
  \E a \in CustomArgs :
    /\ CanCall /\ CanWrite /\ LegacyCanCall
    /\ Both(custom(S, a), UFO_TCP_custom(legacy, a))

\* an event happens to each socket that is in the state for it
BothConnectOk ==
  /\ sockState = "connecting" \/ legacy.sockState = "connecting"
  /\ Both(IF sockState = "connecting" THEN connected(S) ELSE S,
          IF legacy.sockState = "connecting" THEN UFO_TCP_connected(legacy)
          ELSE legacy)

BothConnectFail ==
  /\ sockState = "connecting" \/ legacy.sockState = "connecting"
  /\ Both(IF sockState = "connecting"
          THEN connectFailure([S EXCEPT !.sockState = "destroyed",
                                        !.closePending = TRUE])
          ELSE S,
          IF legacy.sockState = "connecting" THEN UFO_TCP_errorListener(legacy)
          ELSE legacy)

BothPeerClose ==
  /\ sockState = "open" \/ legacy.sockState \in {"open", "ended"}
  /\ sockGen < MaxReconnects /\ legacy.sockGen < MaxReconnects
  /\ Both(IF sockState = "open"
          THEN [S EXCEPT !.sockState = "destroyed", !.closePending = TRUE]
          ELSE S,
          IF legacy.sockState \in {"open", "ended"}
          THEN UFO_TCP_peerClose(legacy) ELSE legacy)

BothSocketError ==
  /\ sockState = "open" \/ legacy.sockState = "open"
  /\ Both(IF sockState = "open"
          THEN errorListener([S EXCEPT !.sockState = "destroyed",
                                       !.closePending = TRUE])
          ELSE S,
          IF legacy.sockState = "open" THEN UFO_TCP_errorListener(legacy)
          ELSE legacy)

BothCloseEvent ==
  /\ closePending \/ (legacy.closePending /\ legacy.sockState /= "ended")
  /\ Both(IF closePending
          THEN [closeSocket([S EXCEPT !.closePending = FALSE], FALSE) EXCEPT
                  !.last = Step("close", "", <<>>, "", <<>>, NullStatus)]
          ELSE S,
          IF legacy.closePending /\ legacy.sockState /= "ended"
          THEN UFO_TCP_closeSocket([legacy EXCEPT !.closePending = FALSE])
          ELSE legacy)

NewWriteDue == writeCbs /= <<>>
NewWriteFails == Head(writeCbs).gen /= sockGen \/ sockState /= "open"
LegacyWriteDue == legacy.writeCbs /= <<>>
LegacyWriteFails ==
  Head(legacy.writeCbs).gen /= legacy.sockGen \/ legacy.sockState /= "open"

\* the oldest write of each client is flushed, or fails when its socket is
\* gone
BothWriteDone ==
  /\ NewWriteDue \/ LegacyWriteDue
  /\ NewWriteDue => sockState /= "connecting"
  /\ LegacyWriteDue => legacy.sockState /= "connecting"
  /\ Both(IF NewWriteDue
          THEN [writeCallback([S EXCEPT !.writeCbs = Tail(@)], Head(writeCbs))
                  EXCEPT !.last.ev = IF NewWriteFails THEN "aborted" ELSE @]
          ELSE S,
          IF LegacyWriteDue THEN UFO_TCP_writeCallback(legacy, LegacyWriteFails)
          ELSE legacy)

LegacyNext ==
  \/ BothConnect
  \/ BothDisconnect
  \/ BothStatus
  \/ BothOn
  \/ BothOff
  \/ BothRgbw
  \/ BothBuiltin
  \/ BothCustom
  \/ BothConnectOk
  \/ BothConnectFail
  \/ BothPeerClose
  \/ BothSocketError
  \/ BothCloseEvent
  \/ BothWriteDone

SpecLegacy == LegacyInit /\ [][LegacyNext]_<<vars, fvars, xvars, legacy>>

(***************************************************************************)
(* The facade UFO (lufo-api/src/TcpClient.js, from line 815) with the TCP  *)
(* client that notifies it by 'tcpDead' (src/TcpClient.js) and its UDP     *)
(* client. The UDP client is not among the sources: it is the channel the  *)
(* specification describes, which owns one socket, is dead from its        *)
(* disconnect() on and emits 'udpDead' with its error when its socket has  *)
(* closed. Of the TCP client the part that makes, connects and closes the  *)
(* socket is modelled; its status and control operations are those of      *)
(* Spec.                                                                   *)
(***************************************************************************)
F ==
  [ufoDead |-> ufoDead, tcpError |-> tcpError, udpError |-> udpError,
   hasCallback |-> hasCallback, deadEvents |-> deadEvents,
   callbacks |-> callbacks, cbError |-> cbError, helloSent |-> helloSent,
   tDead |-> tDead, tError |-> tError, tSock |-> tSock,
   tClosePending |-> tClosePending, tGen |-> tGen, tAttempts |-> tAttempts,
   tConnCb |-> tConnCb, tNotes |-> tNotes,
   uDead |-> uDead, uError |-> uError, uSock |-> uSock,
   uClosePending |-> uClosePending, uNotes |-> uNotes]

FBecomes(f) ==
  /\ ufoDead' = f.ufoDead
  /\ tcpError' = f.tcpError
  /\ udpError' = f.udpError
  /\ hasCallback' = f.hasCallback
  /\ deadEvents' = f.deadEvents
  /\ callbacks' = f.callbacks
  /\ cbError' = f.cbError
  /\ helloSent' = f.helloSent
  /\ tDead' = f.tDead
  /\ tError' = f.tError
  /\ tSock' = f.tSock
  /\ tClosePending' = f.tClosePending
  /\ tGen' = f.tGen
  /\ tAttempts' = f.tAttempts
  /\ tConnCb' = f.tConnCb
  /\ tNotes' = f.tNotes
  /\ uDead' = f.uDead
  /\ uError' = f.uError
  /\ uSock' = f.uSock
  /\ uClosePending' = f.uClosePending
  /\ uNotes' = f.uNotes
  /\ UNCHANGED <<vars, xvars, legacy>>

\* _udpSocket.disconnect(): nothing when dead; else dead, and the socket is
\* closed, whose 'close' the runtime emits later
Udp_disconnect(f) ==
  IF f.uDead THEN f
  ELSE [f EXCEPT !.uDead = TRUE, !.uSock = "closed", !.uClosePending = TRUE]

\* a bug: the error of the UDP client is left out of the UFOError
UFO_deadTcpOnly(f) ==
  LET ufoError == f.tcpError /= NoError
  IN  [f EXCEPT !.deadEvents = @ + 1,
                !.callbacks = IF f.hasCallback THEN @ + 1 ELSE @,
                !.cbError = IF f.hasCallback THEN ufoError ELSE @]

\* the handler of 'dead'
UFO_dead(f) ==
  LET ufoError == f.udpError /= NoError \/ f.tcpError /= NoError
  IN  [f EXCEPT !.deadEvents = @ + 1,
                !.callbacks = IF f.hasCallback THEN @ + 1 ELSE @,
                !.cbError = IF f.hasCallback THEN ufoError ELSE @]

\* a bug: 'dead' is emitted without looking at the UDP client
UFO_tcpDeadAlways(f, err) ==
  UFO_dead([f EXCEPT !.tcpError = err])

\* a bug: the UDP client is left alone when the TCP client has died
UFO_tcpDeadAlone(f, err) ==
  LET f1 == [f EXCEPT !.tcpError = err]
  IN  IF f1.uDead THEN UFO_dead(f1) ELSE f1

\* the handler of 'tcpDead'
UFO_tcpDead(f, err) ==
  LET f1 == [f EXCEPT !.tcpError = err]
  IN  IF f1.uDead THEN UFO_dead(f1) ELSE Udp_disconnect(f1)

\* src/TcpClient.js
Tcp_createSocket(f) ==
  [f EXCEPT !.tDead = FALSE,
            !.tSock = "fresh",
            !.tGen = @ + 1,
            !.tClosePending = FALSE,
            !.tConnCb = FALSE,
            !.tError = NoError]

Tcp_connect(f, callback) ==
  IF f.tDead THEN f
  ELSE [f EXCEPT !.tSock = "connecting",
                 !.tAttempts = @ + 1,
                 !.tConnCb = callback]

\* socket.destroy(), as socketDestroy
Tcp_socketDestroy(f, emits) ==
  IF f.tSock \in {"connecting", "open"}
  THEN [f EXCEPT !.tSock = "destroyed", !.tClosePending = TRUE]
  ELSE IF f.tSock = "fresh"
  THEN [f EXCEPT !.tSock = "destroyed", !.tClosePending = emits]
  ELSE f

Tcp_closeSocket(f, emits) ==
  LET err == IF ~f.tDead THEN f.tError ELSE NoError
      reconnect == ~f.tDead /\ err = NoError
      f1 == Tcp_socketDestroy(f, emits)
  IN  IF reconnect
      THEN Tcp_connect(Tcp_createSocket(f1), FALSE)
      ELSE UFO_tcpDead([f1 EXCEPT !.tDead = TRUE, !.tNotes = @ + 1], f1.tError)

Tcp_disconnect(f, emits) ==
  IF f.tDead THEN f
  ELSE Tcp_closeSocket([f EXCEPT !.tDead = TRUE], emits)

\* the handler of 'udpDead'; a TCP socket that is destroyed here was given
\* to connect() before or not (emits)
UFO_udpDead(f, err, emits) ==
  LET f1 == [f EXCEPT !.udpError = err]
  IN  IF f1.tDead THEN UFO_dead(f1) ELSE Tcp_disconnect(f1, emits)

\* the 'close' of the UDP socket: the client is dead and says so
Udp_closeSocket(f, emits) ==
  UFO_udpDead([f EXCEPT !.uDead = TRUE, !.uNotes = @ + 1], f.uError, emits)

\* UFO.prototype.connect: hello over UDP, the TCP connect in its callback
UFO_connect(f) == [f EXCEPT !.helloSent = TRUE]

UFO_helloCallback(f) == Tcp_connect(f, TRUE)

UFO_disconnect(f, emits) ==
  Udp_disconnect(Tcp_disconnect([f EXCEPT !.ufoDead = TRUE], emits))

\* new UFO(options) without the callback that connects at once
FacadeInit ==
  /\ ufoDead = FALSE /\ tcpError = NoError /\ udpError = NoError
  /\ hasCallback \in BOOLEAN
  /\ deadEvents = 0 /\ callbacks = 0 /\ cbError = FALSE
  /\ helloSent = FALSE
  /\ tDead = FALSE /\ tError = NoError /\ tSock = "fresh"
  /\ tClosePending = FALSE /\ tGen = 0 /\ tAttempts = 0 /\ tConnCb = FALSE
  /\ tNotes = 0
  /\ uDead = FALSE /\ uError = NoError /\ uSock = "open"
  /\ uClosePending = FALSE /\ uNotes = 0
  \* the TcpClient of Spec is not part of SpecFacade
  /\ optCache = TRUE /\ dead = FALSE /\ connectFailed = FALSE
  /\ disconnectCallback = NoPromise /\ statusArray = ZeroArray
  /\ statusIndex = 0 /\ statusCache = NullStatus /\ error = NoError
  /\ statusCallback = NoPromise /\ sockGen = 0 /\ sockState = "fresh"
  /\ paused = TRUE /\ errListener = "none" /\ closePending = FALSE
  /\ connectPromise = NoPromise /\ reqs = 0 /\ inbound = <<>>
  /\ writeCbs = <<>> /\ promises = << >> /\ notes = 0 /\ note = <<>>
  /\ attempts = 0 /\ disconnectCalled = FALSE
  /\ last = Step("new", "", <<>>, "", <<>>, NullStatus)
  \* no function is checked on its own and discover() is not called
  /\ customSteps = <<>> /\ customStepsOut = <<>> /\ legacy = NoLegacy
  /\ rxBase = <<>> /\ rxFlip = NoFlip /\ rxResult = NotDecoded
  /\ fnName = NoName /\ fnArg = <<>> /\ fnRet = <<>>
  /\ cmdName = NoName /\ cmdArgs = <<>> /\ cmdSend = NoString
  /\ password = NoPassword /\ discHello = NoBuffer /\ discError = NoError
  /\ discData = <<>> /\ stopDiscover = "null" /\ udpSocket = "none"
  /\ closeQueued = FALSE /\ sendState = "none" /\ received = 0
  /\ parsed = <<>> /\ thrown = FALSE /\ discCalls = 0 /\ cbArgs = <<>>

FacadeConnect ==
  /\ ~helloSent
  /\ FBecomes(UFO_connect(F))

FacadeDisconnect ==
  \E emits \in BOOLEAN : FBecomes(UFO_disconnect(F, emits))

\* the device answers the hello: the callback of hello() runs
UdpHelloOk ==
  /\ helloSent /\ uSock = "open" /\ uError = NoError
  /\ tSock = "fresh" /\ tGen = 0
  /\ FBecomes(UFO_helloCallback(F))

TcpConnectOk ==
  /\ tSock = "connecting"
  /\ FBecomes([F EXCEPT !.tSock = "open", !.tConnCb = FALSE])

\* the connection fails: 'error' to the error listener, 'close' to follow
TcpConnectFail ==
  /\ tSock = "connecting"
  /\ FBecomes([F EXCEPT !.tError = "err", !.tSock = "destroyed",
                        !.tClosePending = TRUE])

TcpPeerClose ==
  /\ tSock = "open"
  /\ tGen < MaxReconnects
  /\ FBecomes([F EXCEPT !.tSock = "destroyed", !.tClosePending = TRUE])

TcpSocketError ==
  /\ tSock = "open"
  /\ FBecomes([F EXCEPT !.tError = "err", !.tSock = "destroyed",
                        !.tClosePending = TRUE])

TcpCloseEvent ==
  /\ tClosePending
  /\ FBecomes(Tcp_closeSocket([F EXCEPT !.tClosePending = FALSE], FALSE))

\* the UDP socket fails: its error is kept and the socket closes
UdpSocketError ==
  /\ uSock = "open"
  /\ FBecomes([F EXCEPT !.uError = "err", !.uSock = "closed",
                        !.uClosePending = TRUE])

UdpCloseEvent ==
  \E emits \in BOOLEAN :
    /\ uClosePending
    /\ FBecomes(Udp_closeSocket([F EXCEPT !.uClosePending = FALSE], emits))

FacadeNext ==
  \/ FacadeConnect
  \/ FacadeDisconnect
  \/ UdpHelloOk
  \/ TcpConnectOk
  \/ TcpConnectFail
  \/ TcpPeerClose
  \/ TcpSocketError
  \/ TcpCloseEvent
  \/ UdpSocketError
  \/ UdpCloseEvent

SpecFacade == FacadeInit /\ [][FacadeNext]_<<vars, fvars, xvars, legacy>>

\* the runtime emits the 'close' of a socket that is closed
SpecFacadeFair ==
  /\ SpecFacade
  /\ WF_<<vars, fvars, xvars, legacy>>(TcpCloseEvent)
  /\ WF_<<vars, fvars, xvars, legacy>>(UdpCloseEvent)

(***************************************************************************)
(* The step normalisation of custom() on its own: the steps argument is    *)
(* any list of a proper steps, m null steps, b proper steps, n null steps  *)
(* and c proper steps. The proper step at position i is                    *)
(* {red: 100 + i, green: 2, blue: 3}: it differs from the null step in     *)
(* one field only, and from every other proper step of the list.           *)
(***************************************************************************)
StepAt(i, isNull) ==
  IF isNull THEN nullStep ELSE [red |-> 100 + i, green |-> 2, blue |-> 3]

StepList(a, m, b, n, c) ==
  [i \in 1..(a + m + b + n + c) |->
     StepAt(i, \/ (a < i /\ i <= a + m)
               \/ (a + m + b < i /\ i <= a + m + b + n))]

StepLists ==
  { StepList(a, m, b, n, c) : a \in 0..MaxRun, m \in 0..MaxNullRun,
                              b \in 0..MaxRun, n \in 0..MaxNullRun,
                              c \in 0..MaxRun }

NormalizeInit ==
  /\ customSteps \in StepLists
  /\ legacy = NoLegacy
  /\ rxBase = <<>> /\ rxFlip = NoFlip /\ rxResult = NotDecoded
  /\ fnName = NoName /\ fnArg = <<>> /\ fnRet = <<>>
  /\ customStepsOut = <<>>
  \* neither a TcpClient nor a UFO is constructed
  /\ optCache = TRUE /\ dead = FALSE /\ connectFailed = FALSE
  /\ disconnectCallback = NoPromise /\ statusArray = ZeroArray
  /\ statusIndex = 0 /\ statusCache = NullStatus /\ error = NoError
  /\ statusCallback = NoPromise /\ sockGen = 0 /\ sockState = "fresh"
  /\ paused = TRUE /\ errListener = "none" /\ closePending = FALSE
  /\ connectPromise = NoPromise /\ reqs = 0 /\ inbound = <<>>
  /\ writeCbs = <<>> /\ promises = << >> /\ notes = 0 /\ note = <<>>
  /\ attempts = 0 /\ disconnectCalled = FALSE
  /\ last = Step("new", "", <<>>, "", <<>>, NullStatus)
  /\ ufoDead = FALSE /\ tcpError = NoError /\ udpError = NoError
  /\ hasCallback = FALSE /\ deadEvents = 0 /\ callbacks = 0 /\ cbError = FALSE
  /\ helloSent = FALSE
  /\ tDead = FALSE /\ tError = NoError /\ tSock = "fresh"
  /\ tClosePending = FALSE /\ tGen = 0 /\ tAttempts = 0 /\ tConnCb = FALSE
  /\ tNotes = 0
  /\ uDead = FALSE /\ uError = NoError /\ uSock = "open"
  /\ uClosePending = FALSE /\ uNotes = 0
  /\ cmdName = NoName /\ cmdArgs = <<>> /\ cmdSend = NoString
  /\ password = NoPassword /\ discHello = NoBuffer /\ discError = NoError
  /\ discData = <<>> /\ stopDiscover = "null" /\ udpSocket = "none"
  /\ closeQueued = FALSE /\ sendState = "none" /\ received = 0
  /\ parsed = <<>> /\ thrown = FALSE /\ discCalls = 0 /\ cbArgs = <<>>

\* custom() builds stepsCopy from its steps argument
Normalize ==
  /\ customStepsOut = <<>>
  /\ customStepsOut' = stepsCopy(customSteps)
  /\ UNCHANGED <<customSteps, vars, fvars, avars, dvars, rvars, pvars, legacy>>

NormalizeNext == Normalize

SpecNormalize == NormalizeInit /\ [][NormalizeNext]_<<vars, fvars, xvars, legacy>>

(***************************************************************************)
(* assembleCommand() (src/TcpCustoms.js, 152-189). A string is the         *)
(* sequence of its characters. UdpStrings and UdpCommands are imported     *)
(* from files that are not part of the sources at hand: the prefix, the    *)
(* suffix and four commands of the catalog stand for them.                 *)
(***************************************************************************)
sendPrefix == <<"A", "T", "+">>
sendSuffix == <<"\r">>

\* get and set tell how the response of the mode is parsed: "array", "string",
\* or "none" for a command without the property
UdpCommands ==
  [ hello    |-> [cmd |-> <<"H", "F">>, literal |-> TRUE,
                  get |-> "array", set |-> "none"],
    helloAck |-> [cmd |-> <<"+", "o", "k">>, literal |-> TRUE,
                  get |-> "none", set |-> "none"],
    reboot   |-> [cmd |-> <<"Z">>, literal |-> FALSE,
                  get |-> "none", set |-> "none"],
    wifiMode |-> [cmd |-> <<"W", "M">>, literal |-> FALSE,
                  get |-> "string", set |-> "array"] ]

\* Array.prototype.join
RECURSIVE join(_, _)
join(list, sep) ==
  IF list = <<>> THEN <<>>
  ELSE IF Len(list) = 1 THEN list[1]
  ELSE list[1] \o sep \o join(Tail(list), sep)

\* String.prototype.split, for a separator of one character
RECURSIVE split(_, _)
split(str, sep) ==
  IF \A i \in 1..Len(str) : str[i] /= sep THEN <<str>>
  ELSE LET i == CHOOSE k \in 1..Len(str) :
                  str[k] = sep /\ \A j \in 1..(k - 1) : str[j] /= sep
       IN  <<SubSeq(str, 1, i - 1)>> \o split(SubSeq(str, i + 1, Len(str)), sep)

\* variant: every command is wrapped, the literal ones too
assembleCommandWrapsAll(name, setArgs) ==
  LET command == UdpCommands[name]
      mode == IF Len(setArgs) > 0 THEN "set" ELSE "get"
  IN  sendPrefix \o command.cmd
        \o (IF mode = "set" THEN <<"=">> \o join(setArgs, <<",">>) ELSE <<>>)
        \o sendSuffix

\* the send string of assembleCommand(name, ...setArgs)
assembleCommand(name, setArgs) ==
  LET command == UdpCommands[name]
      mode == IF Len(setArgs) > 0 THEN "set" ELSE "get"
  IN  IF ~command.literal
      THEN sendPrefix \o command.cmd
             \o (IF mode = "set" THEN <<"=">> \o join(setArgs, <<",">>) ELSE <<>>)
             \o sendSuffix
      ELSE command.cmd

CommandNames == DOMAIN UdpCommands
SetArgValues == {<<>>, <<"1">>, <<"a", "b">>}
SetArgLists == UNION {[1..n -> SetArgValues] : n \in 0..MaxSetArgs}

AssembleInit ==
  /\ cmdName \in CommandNames
  /\ cmdArgs \in SetArgLists
  /\ legacy = NoLegacy
  /\ rxBase = <<>> /\ rxFlip = NoFlip /\ rxResult = NotDecoded
  /\ fnName = NoName /\ fnArg = <<>> /\ fnRet = <<>>
  /\ cmdSend = NoString
  \* neither a TcpClient nor a UFO is constructed, nothing else is called
  /\ optCache = TRUE /\ dead = FALSE /\ connectFailed = FALSE
  /\ disconnectCallback = NoPromise /\ statusArray = ZeroArray
  /\ statusIndex = 0 /\ statusCache = NullStatus /\ error = NoError
  /\ statusCallback = NoPromise /\ sockGen = 0 /\ sockState = "fresh"
  /\ paused = TRUE /\ errListener = "none" /\ closePending = FALSE
  /\ connectPromise = NoPromise /\ reqs = 0 /\ inbound = <<>>
  /\ writeCbs = <<>> /\ promises = << >> /\ notes = 0 /\ note = <<>>
  /\ attempts = 0 /\ disconnectCalled = FALSE
  /\ last = Step("new", "", <<>>, "", <<>>, NullStatus)
  /\ ufoDead = FALSE /\ tcpError = NoError /\ udpError = NoError
  /\ hasCallback = FALSE /\ deadEvents = 0 /\ callbacks = 0 /\ cbError = FALSE
  /\ helloSent = FALSE
  /\ tDead = FALSE /\ tError = NoError /\ tSock = "fresh"
  /\ tClosePending = FALSE /\ tGen = 0 /\ tAttempts = 0 /\ tConnCb = FALSE
  /\ tNotes = 0
  /\ uDead = FALSE /\ uError = NoError /\ uSock = "open"
  /\ uClosePending = FALSE /\ uNotes = 0
  /\ customSteps = <<>> /\ customStepsOut = <<>> /\ legacy = NoLegacy
  /\ password = NoPassword /\ discHello = NoBuffer /\ discError = NoError
  /\ discData = <<>> /\ stopDiscover = "null" /\ udpSocket = "none"
  /\ closeQueued = FALSE /\ sendState = "none" /\ received = 0
  /\ parsed = <<>> /\ thrown = FALSE /\ discCalls = 0 /\ cbArgs = <<>>

Assemble ==
  /\ cmdSend = NoString
  /\ cmdSend' = assembleCommand(cmdName, cmdArgs)
  /\ UNCHANGED <<cmdName, cmdArgs, vars, fvars, nvars, dvars, rvars, pvars, legacy>>

AssembleNext == Assemble

SpecAssemble == AssembleInit /\ [][AssembleNext]_<<vars, fvars, xvars, legacy>>

(***************************************************************************)
(* discover() (src/TcpCustoms.js, 84-137): one run, from the return of     *)
(* discover() on. The socket has its four listeners and bind() has been    *)
(* called. A Buffer and a string are records of a type and the characters  *)
(* they hold. UdpStrings.defaultHello() is imported from a file that is    *)
(* not part of the sources at hand; the template of the hello command      *)
(* stands for it.                                                          *)
(***************************************************************************)
defaultHello == UdpCommands.hello.cmd

\* Buffer.from(string)
BufferFrom(str) == [type |-> "Buffer", text |-> str]

\* msg.toString('utf8')
toString(buf) == [type |-> "string", text |-> buf.text]

\* a !== b: two strings differ when their characters do; a string and an
\* object, and two objects that are not one and the same, always differ
strictNotEqual(a, b) ==
  ~(a.type = "string" /\ b.type = "string" /\ a.text = b.text)

toLowerCase(c) ==
  CASE c = "A" -> "a"
    [] c = "C" -> "c"
    [] c = "F" -> "f"
    [] c = "H" -> "h"
    [] OTHER -> c

\* .replace(/(.{2})/g, '$1:')
RECURSIVE colonAfterPairs(_)
colonAfterPairs(str) ==
  IF Len(str) < 2 THEN str
  ELSE <<str[1], str[2], ":">> \o colonAfterPairs(SubSeq(str, 3, Len(str)))

normalizeMac(mac) ==
  LET lower == [i \in 1..Len(mac) |-> toLowerCase(mac[i])]
      bare == SelectSeq(lower, LAMBDA c : c \notin {"-", ":"})
      pairs == colonAfterPairs(bare)
  IN  SubSeq(pairs, 1, Len(pairs) - 1)

\* the object helloResponseParser returns for a string, or the TypeError of
\* normalizeMac(undefined) when the string has no comma
helloResponseParser(response) ==
  LET splitResponse == split(response, ",")
  IN  IF Len(splitResponse) < 2 THEN [threw |-> TRUE]
      ELSE [threw |-> FALSE,
            ip |-> splitResponse[1],
            mac |-> normalizeMac(splitResponse[2]),
            model |-> IF Len(splitResponse) < 3 THEN NoString
                      ELSE splitResponse[3]]

\* the run as one record
D ==
  [password |-> password, hello |-> discHello, error |-> discError,
   data |-> discData, stopDiscover |-> stopDiscover, socket |-> udpSocket,
   closeQueued |-> closeQueued, sendState |-> sendState,
   received |-> received, parsed |-> parsed, thrown |-> thrown,
   calls |-> discCalls, cbArgs |-> cbArgs]

DBecomes(d) ==
  /\ password' = d.password
  /\ discHello' = d.hello
  /\ discError' = d.error
  /\ discData' = d.data
  /\ stopDiscover' = d.stopDiscover
  /\ udpSocket' = d.socket
  /\ closeQueued' = d.closeQueued
  /\ sendState' = d.sendState
  /\ received' = d.received
  /\ parsed' = d.parsed
  /\ thrown' = d.thrown
  /\ discCalls' = d.calls
  /\ cbArgs' = d.cbArgs
  /\ UNCHANGED <<vars, fvars, nvars, avars, rvars, pvars, legacy>>

\* socket.close(): it throws on a socket that is closed already, and
\* otherwise queues the 'close' event
socketClose(d) ==
  IF d.socket = "closed" THEN [d EXCEPT !.thrown = TRUE]
  ELSE [d EXCEPT !.socket = "closed", !.closeQueued = TRUE]

\* if (stopDiscover) clearTimeout(stopDiscover)
clearStopDiscover(d) ==
  IF d.stopDiscover = "armed" THEN [d EXCEPT !.stopDiscover = "cleared"] ELSE d

\* the 'close' listener
onClose(d) ==
  [clearStopDiscover(d) EXCEPT !.calls = @ + 1, !.cbArgs = <<d.error, d.data>>]

\* the 'error' listener
onError(d, err) ==
  socketClose([clearStopDiscover(d) EXCEPT !.error = err])

\* the 'message' listener
onMessage(d, msg) ==
  IF d.error /= NoError THEN d
  ELSE LET message == toString(msg)
       IN  IF strictNotEqual(message, d.hello)
           THEN LET reply == helloResponseParser(message.text)
                    d1 == [d EXCEPT !.parsed = Append(@, message.text)]
                IN  IF reply.threw THEN [d1 EXCEPT !.thrown = TRUE]
                    ELSE [d1 EXCEPT !.data = Append(@, reply)]
           ELSE d

\* the timer's closeSocket
stopDiscoverFires(d) ==
  socketClose([d EXCEPT !.stopDiscover = "fired"])

\* the 'listening' listener: setBroadcast and send
onListening(d) == [d EXCEPT !.sendState = "pending"]

\* the callback of socket.send
sendCallback(d, err) ==
  IF err /= NoError THEN onError(d, err)
  ELSE [d EXCEPT !.stopDiscover = "armed"]

PasswordText == <<"k", ",", "A", "-", "1">>
Passwords == {NoPassword, <<>>, PasswordText}
ReplyText == <<"9", ",", "A", "C", ":", "0", "F", ",", "u">>
DiscMessages == {defaultHello, PasswordText, ReplyText}

DiscoverInit ==
  /\ password \in Passwords
  /\ discHello = BufferFrom(IF password /= NoPassword /\ password /= <<>>
                            THEN password ELSE defaultHello)
  /\ discError = NoError /\ discData = <<>> /\ stopDiscover = "null"
  /\ udpSocket = "binding" /\ closeQueued = FALSE /\ sendState = "none"
  /\ received = 0 /\ parsed = <<>> /\ thrown = FALSE
  /\ discCalls = 0 /\ cbArgs = <<>>
  \* neither a TcpClient nor a UFO is constructed, nothing else is called
  /\ optCache = TRUE /\ dead = FALSE /\ connectFailed = FALSE
  /\ disconnectCallback = NoPromise /\ statusArray = ZeroArray
  /\ statusIndex = 0 /\ statusCache = NullStatus /\ error = NoError
  /\ statusCallback = NoPromise /\ sockGen = 0 /\ sockState = "fresh"
  /\ paused = TRUE /\ errListener = "none" /\ closePending = FALSE
  /\ connectPromise = NoPromise /\ reqs = 0 /\ inbound = <<>>
  /\ writeCbs = <<>> /\ promises = << >> /\ notes = 0 /\ note = <<>>
  /\ attempts = 0 /\ disconnectCalled = FALSE
  /\ last = Step("new", "", <<>>, "", <<>>, NullStatus)
  /\ ufoDead = FALSE /\ tcpError = NoError /\ udpError = NoError
  /\ hasCallback = FALSE /\ deadEvents = 0 /\ callbacks = 0 /\ cbError = FALSE
  /\ helloSent = FALSE
  /\ tDead = FALSE /\ tError = NoError /\ tSock = "fresh"
  /\ tClosePending = FALSE /\ tGen = 0 /\ tAttempts = 0 /\ tConnCb = FALSE
  /\ tNotes = 0
  /\ uDead = FALSE /\ uError = NoError /\ uSock = "open"
  /\ uClosePending = FALSE /\ uNotes = 0
  /\ customSteps = <<>> /\ customStepsOut = <<>> /\ legacy = NoLegacy
  /\ rxBase = <<>> /\ rxFlip = NoFlip /\ rxResult = NotDecoded
  /\ fnName = NoName /\ fnArg = <<>> /\ fnRet = <<>>
  /\ cmdName = NoName /\ cmdArgs = <<>> /\ cmdSend = NoString

\* An uncaught exception ends the process. The 'close' event that close()
\* queues with process.nextTick is emitted before any other event.
Running == ~thrown /\ ~closeQueued

DiscListening ==
  /\ Running /\ udpSocket = "binding"
  /\ DBecomes(onListening([D EXCEPT !.socket = "listening"]))

\* bind fails
DiscBindError ==
  /\ Running /\ udpSocket = "binding"
  /\ DBecomes(onError(D, "EADDRINUSE"))

\* the send completes; after a close it may still complete, or be cancelled
DiscSendDone ==
  \E err \in {NoError, "ESEND"} :
    /\ Running /\ sendState = "pending"
    /\ DBecomes(sendCallback([D EXCEPT !.sendState = "done"], err))

DiscMessage ==
  \E m \in DiscMessages :
    /\ Running /\ udpSocket = "listening" /\ received < MaxMessages
    /\ DBecomes(onMessage([D EXCEPT !.received = @ + 1], BufferFrom(m)))

DiscTimeout ==
  /\ Running /\ stopDiscover = "armed"
  /\ DBecomes(stopDiscoverFires(D))

\* the socket reports an error while it is open
DiscSocketError ==
  /\ Running /\ udpSocket = "listening"
  /\ DBecomes(onError(D, "ERECV"))

DiscClose ==
  /\ ~thrown /\ closeQueued
  /\ DBecomes(onClose([D EXCEPT !.closeQueued = FALSE]))

DiscoverNext ==
  \/ DiscListening
  \/ DiscBindError
  \/ DiscSendDone
  \/ DiscMessage
  \/ DiscTimeout
  \/ DiscSocketError
  \/ DiscClose

SpecDiscover == DiscoverInit /\ [][DiscoverNext]_<<vars, fvars, xvars, legacy>>

\* the timer runs out and a queued 'close' is emitted
SpecDiscoverFair ==
  /\ SpecDiscover
  /\ WF_<<vars, fvars, xvars, legacy>>(DiscTimeout)
  /\ WF_<<vars, fvars, xvars, legacy>>(DiscClose)


(***************************************************************************)
(* The decoding of a response on its own: _receiveStatus with the 14 bytes *)
(* of one response, those of a device or not, whole or with one bit        *)
(* flipped on the way.                                                     *)
(***************************************************************************)
\* a response with this header, power byte and mode byte, and a checksum
\* that is sumOff beyond the sum of the other bytes
MkCandidate(header, power, mode, sumOff) ==
  LET body == <<header, 4, power, mode, 33, 10, 1, 2, 3, 4, 3, 0, 0>>
  IN  body \o <<(SumBytes(body) + sumOff) % 256>>

CandidateFrames ==
  {MkCandidate(h, p, m, o) :
     h \in {statusHeader, 128, 0}, p \in {35, 36, 0},
     m \in {96, 97, 98, 38, 16}, o \in {0, 1}}

\* responses that are valid but for their mode byte, which is any byte
ModeFrames == {MkCandidate(statusHeader, 35, m, 0) : m \in 0..255}

\* one bit of one byte
Flips == (1..statusResponseSize) \X (0..7)

\* the byte b with bit k flipped
FlipBit(b, k) == IF (b \div 2^k) % 2 = 1 THEN b - 2^k ELSE b + 2^k

\* the bytes with the bit of flip flipped
FlipIn(bytes, flip) ==
  IF flip = NoFlip THEN bytes
  ELSE [i \in 1..Len(bytes) |->
          IF i = flip[1] THEN FlipBit(bytes[i], flip[2]) ELSE bytes[i]]

\* the bytes handed to the decoding
Received == FlipIn(rxBase, rxFlip)

DecodeInit ==
  /\ rxBase \in CandidateFrames \cup ModeFrames
  /\ rxFlip \in {NoFlip} \cup Flips
  /\ rxResult = NotDecoded
  /\ fnName = NoName /\ fnArg = <<>> /\ fnRet = <<>>
  /\ legacy = NoLegacy
  \* neither a TcpClient nor a UFO is constructed
  /\ optCache = TRUE /\ dead = FALSE /\ connectFailed = FALSE
  /\ disconnectCallback = NoPromise /\ statusArray = ZeroArray
  /\ statusIndex = 0 /\ statusCache = NullStatus /\ error = NoError
  /\ statusCallback = NoPromise /\ sockGen = 0 /\ sockState = "fresh"
  /\ paused = TRUE /\ errListener = "none" /\ closePending = FALSE
  /\ connectPromise = NoPromise /\ reqs = 0 /\ inbound = <<>>
  /\ writeCbs = <<>> /\ promises = << >> /\ notes = 0 /\ note = <<>>
  /\ attempts = 0 /\ disconnectCalled = FALSE
  /\ last = Step("new", "", <<>>, "", <<>>, NullStatus)
  /\ ufoDead = FALSE /\ tcpError = NoError /\ udpError = NoError
  /\ hasCallback = FALSE /\ deadEvents = 0 /\ callbacks = 0 /\ cbError = FALSE
  /\ helloSent = FALSE
  /\ tDead = FALSE /\ tError = NoError /\ tSock = "fresh"
  /\ tClosePending = FALSE /\ tGen = 0 /\ tAttempts = 0 /\ tConnCb = FALSE
  /\ tNotes = 0
  /\ uDead = FALSE /\ uError = NoError /\ uSock = "open"
  /\ uClosePending = FALSE /\ uNotes = 0
  /\ customSteps = <<>> /\ customStepsOut = <<>>
  /\ cmdName = NoName /\ cmdArgs = <<>> /\ cmdSend = NoString
  /\ password = NoPassword /\ discHello = NoBuffer /\ discError = NoError
  /\ discData = <<>> /\ stopDiscover = "null" /\ udpSocket = "none"
  /\ closeQueued = FALSE /\ sendState = "none" /\ received = 0
  /\ parsed = <<>> /\ thrown = FALSE /\ discCalls = 0 /\ cbArgs = <<>>

\* the response is complete: it is decoded
Decode ==
  /\ rxResult = NotDecoded
  /\ rxResult' = decodeStatus(Received)
  /\ UNCHANGED <<rxBase, rxFlip, vars, fvars, nvars, avars, dvars, pvars, legacy>>

DecodeNext == Decode

SpecDecode == DecodeInit /\ [][DecodeNext]_<<vars, fvars, xvars, legacy>>


(***************************************************************************)
(* The private functions on their own: _prepareBytes and the decoding of   *)
(* what it returns, _builtinFlipSpeed and _customFlipSpeed of              *)
(* lufo-api/src/TcpClient.js, flipSpeed of src/TcpCustoms.js.              *)
(***************************************************************************)
\* private variable of src/TcpCustoms.js
maxSpeed == 30

\* TcpCustoms.flipSpeed
TcpCustoms_flipSpeed(speed) == Abs(clamp(speed, 0, maxSpeed) - maxSpeed)

\* the buffers of up to n bytes, of bytes of the set
RECURSIVE BuffersUpTo(_, _)
BuffersUpTo(bytes, n) ==
  IF n = 0 THEN {<<>>}
  ELSE LET shorter == BuffersUpTo(bytes, n - 1)
       IN  shorter \cup {Append(b, x) : b \in shorter, x \in bytes}

\* short buffers, with bytes that carry into the checksum
ShortBuffers == BuffersUpTo({0, 113, 255}, MaxShort)

\* buffers of 12 bytes: with flag and checksum they have the size of a
\* status response
FramePayloads ==
  {<<h, 4, p, m, 33, 10, 1, 2, 3, w, 3, 0>> :
     h \in {statusHeader, 128}, p \in {35, 36, 0},
     m \in {96, 97, 98, 38, 16}, w \in {4, 255}}

Payloads == ShortBuffers \cup FramePayloads

SpeedFns == {"_builtinFlipSpeed", "_customFlipSpeed", "flipSpeed"}

SpeedInputs == (0 - SpeedMargin)..(maxBuiltinSpeed + SpeedMargin)

PureInit ==
  /\ \/ fnName = "_prepareBytes" /\ fnArg \in Payloads
     \/ fnName \in SpeedFns /\ fnArg \in SpeedInputs
  /\ fnRet = <<>>
  /\ rxBase = <<>> /\ rxFlip = NoFlip /\ rxResult = NotDecoded
  /\ legacy = NoLegacy
  \* neither a TcpClient nor a UFO is constructed
  /\ optCache = TRUE /\ dead = FALSE /\ connectFailed = FALSE
  /\ disconnectCallback = NoPromise /\ statusArray = ZeroArray
  /\ statusIndex = 0 /\ statusCache = NullStatus /\ error = NoError
  /\ statusCallback = NoPromise /\ sockGen = 0 /\ sockState = "fresh"
  /\ paused = TRUE /\ errListener = "none" /\ closePending = FALSE
  /\ connectPromise = NoPromise /\ reqs = 0 /\ inbound = <<>>
  /\ writeCbs = <<>> /\ promises = << >> /\ notes = 0 /\ note = <<>>
  /\ attempts = 0 /\ disconnectCalled = FALSE
  /\ last = Step("new", "", <<>>, "", <<>>, NullStatus)
  /\ ufoDead = FALSE /\ tcpError = NoError /\ udpError = NoError
  /\ hasCallback = FALSE /\ deadEvents = 0 /\ callbacks = 0 /\ cbError = FALSE
  /\ helloSent = FALSE
  /\ tDead = FALSE /\ tError = NoError /\ tSock = "fresh"
  /\ tClosePending = FALSE /\ tGen = 0 /\ tAttempts = 0 /\ tConnCb = FALSE
  /\ tNotes = 0
  /\ uDead = FALSE /\ uError = NoError /\ uSock = "open"
  /\ uClosePending = FALSE /\ uNotes = 0
  /\ customSteps = <<>> /\ customStepsOut = <<>>
  /\ cmdName = NoName /\ cmdArgs = <<>> /\ cmdSend = NoString
  /\ password = NoPassword /\ discHello = NoBuffer /\ discError = NoError
  /\ discData = <<>> /\ stopDiscover = "null" /\ udpSocket = "none"
  /\ closeQueued = FALSE /\ sendState = "none" /\ received = 0
  /\ parsed = <<>> /\ thrown = FALSE /\ discCalls = 0 /\ cbArgs = <<>>

\* what the next call of a flip is given: the argument, then the last result
FlipInput == IF fnRet = <<>> THEN fnArg ELSE fnRet[Len(fnRet)]

PrepareBytes ==
  /\ fnName = "_prepareBytes" /\ fnRet = <<>>
  /\ fnRet' = <<prepareBytes(fnArg)>>
  /\ UNCHANGED <<rxResult, fnName, fnArg, rxBase, rxFlip, vars, fvars, nvars, avars,
               dvars, legacy>>

\* what _prepareBytes returned comes back as the 14 bytes of a response
DecodePrepared ==
  /\ fnName = "_prepareBytes" /\ fnRet /= <<>>
  /\ Len(fnRet[1]) = statusResponseSize
  /\ rxResult = NotDecoded
  /\ rxResult' = decodeStatus(fnRet[1])
  /\ UNCHANGED <<fnRet, fnName, fnArg, rxBase, rxFlip, vars, fvars, nvars, avars,
               dvars, legacy>>

BuiltinFlipSpeed ==
  /\ fnName = "_builtinFlipSpeed" /\ Len(fnRet) < 2
  /\ fnRet' = Append(fnRet, builtinFlipSpeed(FlipInput))
  /\ UNCHANGED <<rxResult, fnName, fnArg, rxBase, rxFlip, vars, fvars, nvars, avars,
               dvars, legacy>>

CustomFlipSpeed ==
  /\ fnName = "_customFlipSpeed" /\ Len(fnRet) < 2
  /\ fnRet' = Append(fnRet, customFlipSpeed(FlipInput))
  /\ UNCHANGED <<rxResult, fnName, fnArg, rxBase, rxFlip, vars, fvars, nvars, avars,
               dvars, legacy>>

FlipSpeed ==
  /\ fnName = "flipSpeed" /\ Len(fnRet) < 2
  /\ fnRet' = Append(fnRet, TcpCustoms_flipSpeed(FlipInput))
  /\ UNCHANGED <<rxResult, fnName, fnArg, rxBase, rxFlip, vars, fvars, nvars, avars,
               dvars, legacy>>

PureNext ==
  \/ PrepareBytes
  \/ DecodePrepared
  \/ BuiltinFlipSpeed
  \/ CustomFlipSpeed
  \/ FlipSpeed

SpecPure == PureInit /\ [][PureNext]_<<vars, fvars, xvars, legacy>>


(***************************************************************************)
(* The reassembly of a response on its own: a client that waits for the    *)
(* answer to its status request (connect() and status() of a client        *)
(* without cache, on the first socket), and the 14 bytes of one response   *)
(* that arrive in chunks of any size.                                      *)
(***************************************************************************)
\* the sizes of the chunks
AnyChunkLens == 1..statusResponseSize

\* the responses that arrive
ReassembleFrames ==
  DeviceFrames
    \cup {MkCandidate(h, p, m, o) :
            h \in {statusHeader, 128}, p \in {35, 0}, m \in {96, 16}, o \in {0, 1}}

ReassembleInit ==
  /\ rxBase \in ReassembleFrames
  /\ inbound = rxBase
  /\ optCache = FALSE /\ dead = FALSE /\ connectFailed = FALSE
  /\ disconnectCallback = 2 /\ statusArray = ZeroArray
  /\ statusIndex = 0 /\ statusCache = NullStatus /\ error = NoError
  /\ statusCallback = 2 /\ sockGen = 0 /\ sockState = "open"
  /\ paused = FALSE /\ errListener = "error" /\ closePending = FALSE
  /\ connectPromise = 1 /\ reqs = 0
  /\ writeCbs = <<>>
  /\ promises = [p \in {2} |-> [chain |-> NoPromise, user |-> TRUE]]
  /\ notes = 0 /\ note = <<>>
  /\ attempts = 1 /\ disconnectCalled = FALSE
  /\ last = Step("call", "status", <<FALSE>>, "pending", statusRequest, NullStatus)
  /\ rxFlip = NoFlip /\ rxResult = NotDecoded
  /\ fnName = NoName /\ fnArg = <<>> /\ fnRet = <<>>
  /\ legacy = NoLegacy
  \* no UFO is constructed
  /\ ufoDead = FALSE /\ tcpError = NoError /\ udpError = NoError
  /\ hasCallback = FALSE /\ deadEvents = 0 /\ callbacks = 0 /\ cbError = FALSE
  /\ helloSent = FALSE
  /\ tDead = FALSE /\ tError = NoError /\ tSock = "fresh"
  /\ tClosePending = FALSE /\ tGen = 0 /\ tAttempts = 0 /\ tConnCb = FALSE
  /\ tNotes = 0
  /\ uDead = FALSE /\ uError = NoError /\ uSock = "open"
  /\ uClosePending = FALSE /\ uNotes = 0
  /\ customSteps = <<>> /\ customStepsOut = <<>>
  /\ cmdName = NoName /\ cmdArgs = <<>> /\ cmdSend = NoString
  /\ password = NoPassword /\ discHello = NoBuffer /\ discError = NoError
  /\ discData = <<>> /\ stopDiscover = "null" /\ udpSocket = "none"
  /\ closeQueued = FALSE /\ sendState = "none" /\ received = 0
  /\ parsed = <<>> /\ thrown = FALSE /\ discCalls = 0 /\ cbArgs = <<>>

\* 'data': the next bytes of the response, in a chunk of any size
DataChunk ==
  \E k \in AnyChunkLens :
    /\ sockState = "open"
    /\ ~paused
    /\ k <= Len(inbound)
    /\ Becomes(receiveStatus(
                 [S EXCEPT !.inbound = SubSeq(inbound, k + 1, Len(inbound)),
                           !.last = Step("data", "", <<>>, "", <<>>, NullStatus)],
                 SubSeq(inbound, 1, k)))

ReassembleNext == DataChunk

SpecReassemble ==
  ReassembleInit /\ [][ReassembleNext]_<<vars, fvars, xvars, legacy>>


(***************************************************************************)
(* The recv function assembleCommand() returns (src/TcpCustoms.js,         *)
(* 170-187). UdpStrings is not part of the sources at hand: the receive    *)
(* prefix and suffix are arguments here, drawn with the response.          *)
(***************************************************************************)
\* String.prototype.startsWith, endsWith
startsWith(str, search) ==
  Len(search) <= Len(str) /\ SubSeq(str, 1, Len(search)) = search

endsWith(str, search) ==
  Len(search) <= Len(str)
    /\ SubSeq(str, Len(str) - Len(search) + 1, Len(str)) = search

\* String.prototype.substring(start, end): both ends are brought into
\* 0..length, and swapped when start is beyond end
substring(str, start, end) ==
  LET a == clamp(start, 0, Len(str))
      b == clamp(end, 0, Len(str))
  IN  IF a <= b THEN SubSeq(str, a + 1, b) ELSE SubSeq(str, b + 1, a)

WhiteSpace == {" ", "\t", "\n", "\r"}

\* String.prototype.trim
RECURSIVE trimStart(_)
trimStart(str) ==
  IF str /= <<>> /\ str[1] \in WhiteSpace THEN trimStart(Tail(str)) ELSE str

RECURSIVE trimEnd(_)
trimEnd(str) ==
  IF str /= <<>> /\ str[Len(str)] \in WhiteSpace
  THEN trimEnd(SubSeq(str, 1, Len(str) - 1)) ELSE str

trim(str) == trimEnd(trimStart(str))

\* the mode of assembleCommand(name, ...setArgs)
CommandMode(setArgs) == IF Len(setArgs) > 0 THEN "set" ELSE "get"

\* recv(response), bound to this: command[mode], or "none" for false
recv(this, response, recvPrefix, recvSuffix) ==
  LET r1 == IF startsWith(response, recvPrefix)
            THEN substring(response, Len(recvPrefix), Len(response)) ELSE response
      r2 == IF startsWith(r1, <<"=">>) THEN substring(r1, 1, Len(r1)) ELSE r1
      r3 == IF endsWith(r2, recvSuffix)
            THEN substring(r2, 0, Len(r2) - Len(recvPrefix)) ELSE r2
      result == trim(r3)
  IN  IF result = <<>> THEN <<>>
      ELSE IF this = "array" THEN split(result, ",")
      ELSE IF this = "string" THEN <<result>>
      ELSE <<>>

\* receive prefixes and suffixes, of the same and of different lengths
RecvPrefixes == {<<"+", "o", "k">>, <<"+">>}
RecvSuffixes == {<<"\r", "\n", "\r", "\n">>, <<"\n">>, <<";", ";", ";">>}
\* what a response carries between them
RecvBodies == {<<>>, <<"a", "b">>, <<"a", ",", "b">>, <<" ", "a", " ">>}

\* the responses to a command, with or without prefix, '=' and suffix
RecvInputs ==
  {[response |-> (IF hasPrefix THEN pre ELSE <<>>)
                   \o (IF hasEq THEN <<"=">> ELSE <<>>) \o body
                   \o (IF hasSuffix THEN suf ELSE <<>>),
    recvPrefix |-> pre, recvSuffix |-> suf] :
     pre \in RecvPrefixes, suf \in RecvSuffixes, body \in RecvBodies,
     hasPrefix \in BOOLEAN, hasEq \in BOOLEAN, hasSuffix \in BOOLEAN}

RecvInit ==
  /\ cmdName \in CommandNames
  /\ cmdArgs \in {<<>>, <<<<"1">>>>}
  /\ cmdSend = NoString
  /\ fnName = "recv" /\ fnArg \in RecvInputs /\ fnRet = <<>>
  /\ rxBase = <<>> /\ rxFlip = NoFlip /\ rxResult = NotDecoded
  /\ legacy = NoLegacy
  \* neither a TcpClient nor a UFO is constructed
  /\ optCache = TRUE /\ dead = FALSE /\ connectFailed = FALSE
  /\ disconnectCallback = NoPromise /\ statusArray = ZeroArray
  /\ statusIndex = 0 /\ statusCache = NullStatus /\ error = NoError
  /\ statusCallback = NoPromise /\ sockGen = 0 /\ sockState = "fresh"
  /\ paused = TRUE /\ errListener = "none" /\ closePending = FALSE
  /\ connectPromise = NoPromise /\ reqs = 0 /\ inbound = <<>>
  /\ writeCbs = <<>> /\ promises = << >> /\ notes = 0 /\ note = <<>>
  /\ attempts = 0 /\ disconnectCalled = FALSE
  /\ last = Step("new", "", <<>>, "", <<>>, NullStatus)
  /\ ufoDead = FALSE /\ tcpError = NoError /\ udpError = NoError
  /\ hasCallback = FALSE /\ deadEvents = 0 /\ callbacks = 0 /\ cbError = FALSE
  /\ helloSent = FALSE
  /\ tDead = FALSE /\ tError = NoError /\ tSock = "fresh"
  /\ tClosePending = FALSE /\ tGen = 0 /\ tAttempts = 0 /\ tConnCb = FALSE
  /\ tNotes = 0
  /\ uDead = FALSE /\ uError = NoError /\ uSock = "open"
  /\ uClosePending = FALSE /\ uNotes = 0
  /\ customSteps = <<>> /\ customStepsOut = <<>>
  /\ password = NoPassword /\ discHello = NoBuffer /\ discError = NoError
  /\ discData = <<>> /\ stopDiscover = "null" /\ udpSocket = "none"
  /\ closeQueued = FALSE /\ sendState = "none" /\ received = 0
  /\ parsed = <<>> /\ thrown = FALSE /\ discCalls = 0 /\ cbArgs = <<>>

\* assembleCommand(name, ...setArgs) is called
RecvAssemble ==
  /\ cmdSend = NoString
  /\ cmdSend' = assembleCommand(cmdName, cmdArgs)
  /\ UNCHANGED <<cmdName, cmdArgs, vars, fvars, nvars, dvars, rvars, pvars, legacy>>

\* the recv it returned is called with the response
Recv ==
  /\ cmdSend /= NoString /\ fnRet = <<>>
  /\ fnRet' = <<recv(UdpCommands[cmdName][CommandMode(cmdArgs)],
                     fnArg.response, fnArg.recvPrefix, fnArg.recvSuffix)>>
  /\ UNCHANGED <<fnName, fnArg, avars, vars, fvars, nvars, dvars, rvars, legacy>>

RecvNext ==
  \/ RecvAssemble
  \/ Recv

SpecRecv == RecvInit /\ [][RecvNext]_<<vars, fvars, xvars, legacy>>


(***************************************************************************)
(* The status cache on a connection that stays up: a client with cache     *)
(* whose connect() has resolved, with the response of a device in any mode *)
(* in the cache, and the calls and events of Spec without those that end   *)
(* the connection.                                                         *)
(***************************************************************************)
\* valid responses of a device that is on or off, in each kind of mode
CachedFrames ==
  {MkFrame(p, m, 10, 1, 2, 3, 4) : p \in {35, 36}, m \in {96, 97, 98, 38, 99}}

CacheInit ==
  /\ rxBase \in CachedFrames
  /\ statusCache = decodeStatus(rxBase).data
  /\ last = Step("data", "status", <<NoError>>, "resolved", <<>>,
                 decodeStatus(rxBase).data)
  /\ optCache = TRUE /\ dead = FALSE /\ connectFailed = FALSE
  /\ disconnectCallback = NoPromise /\ statusArray = ZeroArray
  /\ statusIndex = 0 /\ error = NoError
  /\ statusCallback = NoPromise /\ sockGen = 0 /\ sockState = "open"
  /\ paused = TRUE /\ errListener = "error" /\ closePending = FALSE
  /\ connectPromise = 1 /\ reqs = 0 /\ inbound = <<>>
  /\ writeCbs = <<>> /\ promises = << >> /\ notes = 0 /\ note = <<>>
  /\ attempts = 1 /\ disconnectCalled = FALSE
  /\ rxFlip = NoFlip /\ rxResult = NotDecoded
  /\ fnName = NoName /\ fnArg = <<>> /\ fnRet = <<>>
  /\ legacy = NoLegacy
  \* no UFO is constructed
  /\ ufoDead = FALSE /\ tcpError = NoError /\ udpError = NoError
  /\ hasCallback = FALSE /\ deadEvents = 0 /\ callbacks = 0 /\ cbError = FALSE
  /\ helloSent = FALSE
  /\ tDead = FALSE /\ tError = NoError /\ tSock = "fresh"
  /\ tClosePending = FALSE /\ tGen = 0 /\ tAttempts = 0 /\ tConnCb = FALSE
  /\ tNotes = 0
  /\ uDead = FALSE /\ uError = NoError /\ uSock = "open"
  /\ uClosePending = FALSE /\ uNotes = 0
  /\ customSteps = <<>> /\ customStepsOut = <<>>
  /\ cmdName = NoName /\ cmdArgs = <<>> /\ cmdSend = NoString
  /\ password = NoPassword /\ discHello = NoBuffer /\ discError = NoError
  /\ discData = <<>> /\ stopDiscover = "null" /\ udpSocket = "none"
  /\ closeQueued = FALSE /\ sendState = "none" /\ received = 0
  /\ parsed = <<>> /\ thrown = FALSE /\ discCalls = 0 /\ cbArgs = <<>>

CacheNext ==
  \/ CallStatus
  \/ CallOn
  \/ CallOff
  \/ CallRgbw
  \/ CallBuiltin
  \/ CallCustom
  \/ DeviceRespond
  \/ Data
  \/ WriteDone

SpecCache == CacheInit /\ [][CacheNext]_<<vars, fvars, xvars, legacy>>


(***************************************************************************)
(* The claims about the TcpClient, under Spec.                             *)
(***************************************************************************)
Open == sockState = "open" /\ ~dead
ControlOps == {"on", "off", "rgbw", "builtin", "custom"}
\* the step is the 'close' of a connected socket of a live client, with no
\* 'error' before it
IdleClose ==
  /\ closePending /\ ~closePending'
  /\ ~dead /\ ~connectFailed /\ error = NoError
\* the last step was a call of status(force) on a live client
StatusCalled(s) == s.ev = "call" /\ s.op = "status"

C2_DeadNoOp ==
  (disconnectCalled /\ last.ev = "call" /\ last.op \in ControlOps \cup {"status"})
    => /\ last.outcome = "resolved"
       /\ last.wrote = <<>>
       /\ last.value = NullStatus

C2_Witness ==
  /\ disconnectCalled /\ dead
  /\ last = Step("call", "status", <<TRUE>>, "resolved", <<>>, NullStatus)
  /\ statusCache /= NullStatus

\* C3: once _dead is true it stays true, whatever is called and whatever the
\* socket emits, and no socket is made and no connect() issued any more.
C3_DeadIsTerminal ==
  [][ dead => /\ dead'
              /\ sockGen' = sockGen
              /\ attempts' = attempts
              /\ sockState' /= "connecting" ]_vars

\* dead by a close after an error, and the calls and events went on
C3_Witness ==
  /\ dead /\ error /= NoError /\ disconnectCalled /\ ~closePending
  /\ last.ev = "call" /\ last.op = "rgbw"

\* the frame a status() served from the cache after rgbw(a) must have
RgbwFrame(v, a) ==
  /\ v /= NullStatus
  /\ v.mode = "static"
  /\ v.red = clampRGBW(a[1]) /\ v.green = clampRGBW(a[2])
  /\ v.blue = clampRGBW(a[3]) /\ v.white = clampRGBW(a[4])

\* the step is the status(force=false) that follows a rgbw() that succeeded,
\* on an open client with the cache enabled
StatusAfterRgbw ==
  /\ optCache /\ Open
  /\ last.ev = "written" /\ last.op = "rgbw"
  /\ StatusCalled(last') /\ last'.args = <<FALSE>>

\* C4 as claimed: whatever came before the rgbw(), the status(force=false)
\* after it is served from the cache with mode static and the clamped values.
C4_Original ==
  [][ StatusAfterRgbw =>
        /\ last'.wrote = <<>> /\ last'.outcome = "resolved"
        /\ RgbwFrame(last'.value, last.args) ]_vars

\* C4, amended: the same, when a cached frame exists as the write of rgbw()
\* completes (rgbw() updates a cached frame, it does not make one).
C4_CacheAfterRgbw ==
  [][ (StatusAfterRgbw /\ statusCache /= NullStatus) =>
        /\ last'.wrote = <<>> /\ last'.outcome = "resolved"
        /\ RgbwFrame(last'.value, last.args) ]_vars

\* a status served from the cache of a frame that rgbw() has updated: the
\* device said function mode and 5,6,7,8, the cache says static and the
\* clamped arguments
C4_Witness ==
  /\ optCache /\ ~dead
  /\ StatusCalled(last) /\ last.outcome = "resolved" /\ last.wrote = <<>>
  /\ \E a \in RgbwArgs :
       /\ RgbwFrame(last.value, a)
       /\ last.value.raw = rgbwData(a)
       /\ last.value.on = FALSE

\* C5: when builtin() or custom() has succeeded the cache is null, and the
\* status(force=false) that follows on the live client writes a status
\* request.
C5_FunctionClearsCache ==
  [][ (last.ev = "written" /\ last.op \in {"builtin", "custom"}) =>
        /\ statusCache = NullStatus
        /\ (~dead /\ StatusCalled(last') /\ last'.args = <<FALSE>>) =>
             (last'.wrote = statusRequest /\ last'.outcome = "pending") ]_vars

\* the write of a builtin() has completed on an open client with the cache
\* enabled, and nothing is cached
C5_Witness ==
  /\ optCache /\ Open /\ statusCache = NullStatus
  /\ last.ev = "written" /\ last.op = "builtin" /\ last.outcome = "resolved"

\* C6: a status(force) on a live client is served from the cache, with
\* nothing written, exactly when the cache is enabled, force is false and a
\* frame of mode static is cached; in every other case it writes a request.
C6_CacheOnlyWhenStatic ==
  (StatusCalled(last) /\ ~dead) =>
     IF /\ optCache /\ ~last.args[1]
        /\ statusCache /= NullStatus /\ statusCache.mode = "static"
     THEN last.wrote = <<>> /\ last.outcome = "resolved" /\ last.value = statusCache
     ELSE last.wrote = statusRequest /\ last.outcome = "pending"

\* force is true and a static frame is cached: a request is written
C6_Witness ==
  /\ StatusCalled(last) /\ Open /\ optCache /\ last.args = <<TRUE>>
  /\ statusCache /= NullStatus /\ statusCache.mode = "static"
  /\ last.wrote = statusRequest

\* C7 as claimed: a client that is dead has notified its owner exactly once.
C7_ExactlyOneNote == dead => notes = 1

(***************************************************************************)
(* The claims about the facade, under SpecFacade and SpecFacadeFair.       *)
(***************************************************************************)
\* C8 as claimed: whatever the order of disconnect(), 'tcpDead' and
\* 'udpDead', 'dead' is emitted and the callback of the user called once,
\* not twice.
C8_TerminalOnce == deadEvents <= 1 /\ callbacks <= 1

\* C9: 'dead' has been emitted, and the callback of the user called, only
\* when the TCP client and the UDP client are both dead.
C9_DeadOnlyWhenBothDead ==
  (deadEvents > 0 \/ callbacks > 0) => (tDead /\ uDead)

\* both clients died of the error of one, and the user was told with an error
C9_Witness ==
  /\ deadEvents > 0 /\ callbacks > 0 /\ cbError
  /\ tDead /\ uDead /\ ~ufoDead /\ tcpError /= NoError

\* C10: a 'tcpDead' or 'udpDead' that arrives while the other client is
\* alive leaves the other client dead (disconnect() was called on it), and
\* from a state where one client is dead, both are dead and 'dead' has been
\* emitted at some later time.
C10_OtherChannelFollows ==
  /\ [][ /\ (tNotes' > tNotes /\ ~uDead) => uDead'
         /\ (uNotes' > uNotes /\ ~tDead) => tDead' ]_<<vars, fvars, xvars, legacy>>
  /\ (tDead \/ uDead) ~> (tDead /\ uDead /\ deadEvents > 0)

\* the UDP client died of an error while the TCP client was connected: the
\* facade disconnected the TCP client and 'dead' was emitted
C10_Witness ==
  /\ deadEvents > 0 /\ ~ufoDead
  /\ udpError /= NoError /\ tcpError = NoError
  /\ tDead /\ uDead /\ tNotes > 0 /\ tAttempts > 0

\* a client has emitted its dead event with an error (its error does not
\* change once it is dead)
TcpDiedWithError == tNotes > 0 /\ tError /= NoError
UdpDiedWithError == uNotes > 0 /\ uError /= NoError

\* C11: the callback of the user was last called with an error exactly when
\* the TCP client or the UDP client has emitted its dead event with an
\* error; when both died without one it was called with null.
C11_ErrorIffChannelError ==
  callbacks > 0 => (cbError <=> (TcpDiedWithError \/ UdpDiedWithError))

\* after UFO.disconnect() both clients have died without error and the
\* callback was called with null
C11_Witness ==
  /\ callbacks > 0 /\ ~cbError /\ ufoDead
  /\ tNotes > 0 /\ uNotes > 0 /\ tError = NoError /\ uError = NoError

\* the step is the failure of a connect attempt: 'error' to connectFailure
ConnectFails == sockState = "connecting" /\ last'.ev = "error"

\* C12: when a connect attempt fails, the promise of that connect() is
\* rejected, and the 'close' that follows makes no socket, calls no
\* socket.connect and changes neither _dead nor the notifications; for the
\* connect() of the caller and for the one _closeSocket issues.
C12_ConnectFailureNoReconnect ==
  [][ /\ ConnectFails =>
           /\ connectPromise \in DOMAIN promises
           /\ connectPromise \notin DOMAIN promises'
           /\ last'.outcome = "rejected"
           /\ connectFailed'
      /\ (connectFailed /\ closePending /\ ~closePending') =>
           /\ sockGen' = sockGen /\ attempts' = attempts
           /\ sockState' = sockState
           /\ dead' = dead /\ notes' = notes ]_vars

\* the connect attempt made after an idle close has failed and the 'close'
\* of its socket was delivered: no third attempt
C12_Witness ==
  /\ sockGen = 1 /\ attempts = 2 /\ connectFailed
  /\ sockState = "destroyed" /\ ~closePending
  /\ ~dead /\ notes = 0 /\ ~disconnectCalled

\* a status() waits for its response: its promise is pending
StatusPending == statusCallback \in DOMAIN promises

\* C13 as claimed: a pending status() is settled by the step that completes
\* a response and by the step of a 'close' that comes first, the 'close' of
\* an idle connection (no error, client alive) included.
C13_PendingStatusSettled ==
  [][ /\ (StatusPending /\ last'.ev = "data" /\ last'.op = "status") =>
           statusCallback \notin DOMAIN promises'
      /\ (StatusPending /\ IdleClose) =>
           statusCallback \notin DOMAIN promises' ]_vars

\* the step is a call of status() on a live client while an earlier
\* status() is pending
SecondStatusCall ==
  /\ StatusPending /\ ~dead
  /\ StatusCalled(last')
  /\ Cardinality(DOMAIN promises') > Cardinality(DOMAIN promises)

\* C14 as claimed: a status() called while an earlier one is pending is
\* queued or rejected (it writes no second request), and the callback slot
\* of the earlier one is kept, so that the response settles it.
C14_OneStatusOutstanding ==
  [][ SecondStatusCall =>
        /\ statusCallback' = statusCallback
        /\ last'.wrote = <<>> ]_vars

\* the step is a builtin() or custom() call that was rejected
RejectedControl ==
  /\ last'.ev = "call" /\ last'.op \in {"builtin", "custom"}
  /\ last'.outcome = "rejected" /\ last' /= last

\* C15: builtin() with an unknown name and custom() with a bad mode are
\* rejected before anything is written: no frame goes out, no write callback
\* is registered, and the status cache, the pending-callback slot, the
\* reassembly buffer and its offset and the dead flag are what they were.
C15_RejectedBeforeWrite ==
  [][ RejectedControl =>
        /\ last'.wrote = <<>>
        /\ writeCbs' = writeCbs /\ reqs' = reqs
        /\ statusCache' = statusCache
        /\ statusCallback' = statusCallback
        /\ disconnectCallback' = disconnectCallback
        /\ statusArray' = statusArray /\ statusIndex' = statusIndex
        /\ dead' = dead /\ promises' = promises ]_vars

C15_Witness ==
  /\ last.ev = "call" /\ last.op = "custom" /\ last.outcome = "rejected"
  /\ ~dead /\ Open /\ statusCache /= NullStatus

\* the positions of the steps argument that hold a proper step
ProperAt == {p \in 1..Len(customSteps) : ~isNullStep(customSteps[p])}

\* the position of the i-th proper step of the steps argument
NthProper(i) ==
  CHOOSE p \in ProperAt : Cardinality({q \in ProperAt : q <= p}) = i

ProperKept ==
  IF Cardinality(ProperAt) < maxCustomSteps THEN Cardinality(ProperAt)
  ELSE maxCustomSteps

\* C16: whatever the steps argument (0 to 40 steps, null steps anywhere),
\* custom() encodes exactly 16 steps: the first min(16, proper steps) are
\* the proper steps of the argument in their order, none of them null, and
\* every step from the first null one on is null.
C16_StepsNormalized ==
  customStepsOut /= <<>> =>
    /\ Len(customStepsOut) = maxCustomSteps
    /\ \A i \in 1..ProperKept :
         /\ ~isNullStep(customStepsOut[i])
         /\ customStepsOut[i] = customSteps[NthProper(i)]
    /\ \A i \in 1..maxCustomSteps : \A j \in i..maxCustomSteps :
         isNullStep(customStepsOut[i]) => isNullStep(customStepsOut[j])

C16_Witness ==
  /\ customStepsOut /= <<>>
  /\ Len(customSteps) = 40
  /\ Cardinality(ProperAt) > maxCustomSteps
  /\ \E p \in 1..maxCustomSteps : p \notin ProperAt

\* the characters of str that are c
Count(str, c) == Cardinality({i \in 1..Len(str) : str[i] = c})

\* what cmdSend holds between the prefix and template and the suffix
SendTail ==
  SubSeq(cmdSend, Len(sendPrefix) + Len(UdpCommands[cmdName].cmd) + 1,
         Len(cmdSend) - Len(sendSuffix))

\* C20: the send string of a literal command is its template, whatever
\* the arguments. That of another command starts with the send prefix and
\* the template and ends with the send suffix; without arguments there is
\* nothing in between and no '=' that the three parts do not hold, with
\* arguments there is '=' and then the arguments separated by commas.
C20_SendString ==
  cmdSend /= NoString =>
    LET command == UdpCommands[cmdName]
        head == sendPrefix \o command.cmd
    IN  IF command.literal THEN cmdSend = command.cmd
        ELSE /\ Len(cmdSend) >= Len(head) + Len(sendSuffix)
             /\ SubSeq(cmdSend, 1, Len(head)) = head
             /\ SubSeq(cmdSend, Len(cmdSend) - Len(sendSuffix) + 1,
                       Len(cmdSend)) = sendSuffix
             /\ IF cmdArgs = <<>>
                THEN /\ SendTail = <<>>
                     /\ Count(cmdSend, "=") = Count(head \o sendSuffix, "=")
                ELSE /\ SendTail /= <<>> /\ Head(SendTail) = "="
                     /\ split(Tail(SendTail), ",") = cmdArgs

C20_Witness ==
  /\ cmdSend /= NoString
  /\ ~UdpCommands[cmdName].literal
  /\ Len(cmdArgs) = 2
  /\ cmdSend = <<"A", "T", "+", "W", "M", "=", "1", ",", "a", "b", "\r">>

\* C17 as claimed: a datagram with the very bytes of the hello that was
\* broadcast is ignored: it is never handed to the parser of the replies
\* and adds nothing to data.
C17_OwnHelloIgnored ==
  \A i \in 1..Len(parsed) : parsed[i] /= discHello.text

\* C18 as claimed: the list that callback gets together with an error is
\* empty.
C18_ErrorDiscardsReplies ==
  (discCalls > 0 /\ cbArgs[1] /= NoError) => cbArgs[2] = <<>>

\* C19 as claimed: callback is never invoked twice, the list it gets is a
\* list, no message received after an error is added, and once the hello
\* is sent and the timer runs, or the socket has reported an error,
\* callback is invoked.
C19_CallbackExactlyOnce ==
  /\ [](discCalls <= 1)
  /\ [](discCalls > 0 => DOMAIN cbArgs[2] = 1..Len(cbArgs[2]))
  /\ [](discError /= NoError =>
          \A m \in DiscMessages : onMessage(D, BufferFrom(m)).data = discData)
  /\ ((stopDiscover = "armed" \/ discError /= NoError) ~> discCalls = 1)

\* what a call of the TcpClient reports, in the words of the legacy client
Reported(outcome) ==
  CASE outcome = "rejected" -> "error"
    [] outcome = "resolved" -> "ok"
    [] OTHER -> outcome

\* C21 as claimed: the same call made on the legacy client and on the
\* TcpClient writes the same bytes and reports the same outcome, also on a
\* dead channel and for custom() with an invalid mode.
C21_LegacyIdentical ==
  legacy.last.ev = "call" =>
    /\ legacy.last.op = last.op
    /\ legacy.last.wrote = last.wrote
    /\ legacy.last.outcome = Reported(last.outcome)

\* the 'close' of a connected, live channel whose socket reported an error
CloseAfterError ==
  /\ closePending /\ ~closePending'
  /\ ~dead /\ ~connectFailed /\ error /= NoError

\* the promise the caller holds for the pending promise p
Root(p) == IF promises[p].user THEN p ELSE promises[p].chain

\* C22 as claimed: the 'close' that follows an error on a connected, live
\* channel marks the channel dead without a reconnect, tells the facade
\* the error, and hands it the reject of every operation that is pending,
\* so that the operation is released with the error.
C22_ErrorCloseReleases ==
  [][ CloseAfterError =>
        /\ dead' /\ sockGen' = sockGen /\ attempts' = attempts
        /\ notes' = notes + 1 /\ note'[1] = error
        /\ \A p \in Waiting :
             /\ note'[2] \in DOMAIN promises
             /\ Root(note'[2]) = p ]_vars

\* a transport error has happened after the first connection: the socket
\* reported one, or the connect of a silent reconnect failed
ErrorInOperation == error /= NoError \/ (connectFailed /\ sockGen > 0)

\* the facade has been told of the death, or a promise other than that of
\* a silent reconnect has just been rejected
ErrorSurfaced ==
  \/ notes > 0
  \/ last.outcome = "rejected" /\ ~(last.op = "connect" /\ sockGen > 0)

\* C23 as claimed: a transport error after the first connection, also one
\* that makes the connect of a silent reconnect fail, is in the end
\* surfaced: a request is rejected or the facade is told of the death.
C23_ErrorSurfaced == ErrorInOperation ~> ErrorSurfaced

\* a status request fails on its frame: the callback rejects it
StatusFrameFails ==
  /\ StatusPending
  /\ last'.ev = "data" /\ last'.op = "status" /\ last'.outcome = "rejected"

\* a status request fails on the transport: the socket reported an error
\* and closes while the request is pending
StatusTransportFails == StatusPending /\ CloseAfterError

\* C24 as claimed: a status request that fails, on its frame or on the
\* transport, leaves the status cache null.
C24_Original ==
  [][ (StatusFrameFails \/ StatusTransportFails) =>
        statusCache' = NullStatus ]_vars

\* C24, amended: a status request that fails on its frame leaves the cache
\* null. One that fails on the transport leaves the cache as it was and
\* the channel dead, and status() on a dead channel resolves with null
\* and writes nothing: no later status is answered from the cache.
C24_FailedStatusNotServed ==
  [][ /\ StatusFrameFails => statusCache' = NullStatus
      /\ StatusTransportFails => (dead' /\ statusCache' = statusCache)
      /\ (dead /\ StatusCalled(last') /\ last' /= last) =>
           /\ last'.value = NullStatus /\ last'.outcome = "resolved"
           /\ last'.wrote = <<>> ]_vars

C24_Witness ==
  /\ dead /\ error /= NoError /\ statusCache /= NullStatus
  /\ note /= <<>> /\ note[2] /= NoPromise
  /\ last.ev = "call" /\ last.op = "status" /\ last.outcome = "resolved"
  /\ last.value = NullStatus

\* the write of a control operation fails: its socket has reported an
\* error and the runtime calls the callback of the write with the error
ControlWriteFails ==
  /\ writeCbs /= <<>> /\ Head(writeCbs).op \in ControlOps
  /\ Head(writeCbs).gen = sockGen /\ error /= NoError
  /\ last'.ev = "aborted" /\ writeCbs' = Tail(writeCbs)

\* C25 as claimed: a control operation whose write fails because the
\* socket died is not resolved and does not touch the status cache.
C25_FailedWriteRejected ==
  [][ ControlWriteFails =>
        /\ last'.outcome /= "resolved"
        /\ statusCache' = statusCache ]_vars


\* the step is the call of a control operation
ControlCall ==
  last' /= last /\ last'.ev = "call" /\ last'.op \in ControlOps

\* the step is the callback of the write of a control operation
ControlCallback ==
  /\ writeCbs /= <<>> /\ Head(writeCbs).op \in ControlOps
  /\ writeCbs' = Tail(writeCbs)
  /\ last' /= last /\ last'.op = Head(writeCbs).op

\* C26: on(), off(), rgbw(), builtin() and custom() change the status cache
\* only when the completion of their socket write is confirmed and before
\* the operation resolves: a step of such an operation that changes the
\* cache is not its call but the callback of its write, the write was
\* flushed, and the operation resolves in that step
C26_CacheAfterWrite ==
  [][ ((ControlCall \/ ControlCallback) /\ statusCache' /= statusCache) =>
        /\ ControlCallback
        /\ last'.ev = "written"
        /\ last'.outcome = "resolved" ]_vars

\* the socket of a connect() becomes ready: the connect listener runs
SocketReady == sockState = "connecting" /\ sockState' = "open"

\* the promise of connect() is resolved in this step
ConnectResolves ==
  /\ connectPromise \in DOMAIN promises
  /\ connectPromise \notin DOMAIN promises'
  /\ last'.outcome = "resolved"

\* the cache holds what the decoding of a valid frame of the device gives
CacheValidated ==
  \E f \in DeviceFrames :
    decodeStatus(f).err = NoError /\ statusCache = decodeStatus(f).data

\* C27: with the cache enabled, the connect listener writes a status request
\* and leaves connect() pending, and connect() resolves on a live channel
\* only in the step in which the answer is decoded, with a validated frame
\* in the cache; with the cache disabled, connect() resolves in the step in
\* which the socket becomes ready, and no status request is written
C27_ConnectPrimesCache ==
  /\ [][ SocketReady =>
           IF optCache
           THEN /\ reqs' = reqs + 1
                /\ connectPromise \in DOMAIN promises'
                /\ statusCallback' /= NoPromise
           ELSE /\ reqs' = reqs
                /\ ConnectResolves ]_vars
  /\ [][ (ConnectResolves /\ ~dead') =>
           IF optCache
           THEN /\ last'.ev = "data"
                /\ CacheValidated'
           ELSE SocketReady ]_vars

\* connect() has resolved on a live channel with the cache enabled
C27_Witness ==
  /\ optCache /\ ~dead /\ sockState = "open"
  /\ connectPromise /= NoPromise /\ connectPromise \notin DOMAIN promises
  /\ last.ev = "data" /\ last.outcome = "resolved"
  /\ CacheValidated

\* the step is the callback of the write of on() or of off()
PowerCallback ==
  ControlCallback /\ Head(writeCbs).op \in {"on", "off"}

\* C28: the callback of on() writes true, and that of off() false, to the
\* field 'on' of the cached frame and leaves every other field of it (mode,
\* speed, red, green, blue, white, raw) as it is; without a cached frame
\* there is none afterwards either
C28_PowerFieldOnly ==
  [][ PowerCallback =>
        IF statusCache = NullStatus
        THEN statusCache' = NullStatus
        ELSE /\ DOMAIN statusCache' = DOMAIN statusCache
             /\ statusCache'.on = (Head(writeCbs).op = "on")
             /\ \A f \in DOMAIN statusCache \ {"on"} :
                  statusCache'[f] = statusCache[f] ]_vars

\* off() has completed on a frame cached as on
C28_Witness ==
  /\ last.ev = "written" /\ last.op = "off"
  /\ statusCache /= NullStatus
  /\ statusCache.on = FALSE /\ statusCache.raw[3] = 35
  /\ statusCache.mode = "static" /\ statusCache.red = 1

(***************************************************************************)
(* The claims about the decoding of a response, under SpecDecode.          *)
(***************************************************************************)
\* the mode byte is one the decoding knows
ModeKnown(mode) ==
  mode \in {96, 97, 98} \/ builtinFunctionName(mode) /= NoName

\* the checksum byte is the sum of the other bytes, modulo 256
ChecksumRight(bytes) ==
  bytes[statusResponseSize]
    = SumBytes(SubSeq(bytes, 1, statusResponseSize - 1)) % 256

\* the first of the four checks the bytes fail, in the order header,
\* checksum, power byte, mode byte
FirstFailure(bytes) ==
  IF bytes[1] /= statusHeader THEN "header"
  ELSE IF ~ChecksumRight(bytes) THEN "checksum"
  ELSE IF bytes[3] \notin {35, 36} THEN "power"
  ELSE IF ~ModeKnown(bytes[4]) THEN "mode"
  ELSE NoError

\* C29: the validation of a response checks header, checksum, power byte
\* and mode byte in this order and stops at the first check that fails:
\* that check alone gives the error; with an error the result is null,
\* without one it is a frame
C29_FirstFailureOnly ==
  rxResult /= NotDecoded =>
    /\ rxResult.err = FirstFailure(Received)
    /\ rxResult.err /= NoError => rxResult.data = NullStatus
    /\ rxResult.err = NoError => rxResult.data /= NullStatus

\* a response with a wrong checksum, an impossible power byte and an
\* impossible mode byte was decoded: the checksum is what is reported
C29_Witness ==
  /\ rxResult /= NotDecoded
  /\ Received[1] = statusHeader
  /\ ~ChecksumRight(Received)
  /\ Received[3] \notin {35, 36}
  /\ ~ModeKnown(Received[4])
  /\ rxResult.err = "checksum" /\ rxResult.data = NullStatus

\* C30: a response whose first byte is not 0x81 is reported as a header
\* mismatch; a response that passes the validation, with one bit of one
\* byte other than the header and the checksum flipped, is reported as a
\* checksum mismatch
C30_HeaderAndBitFlips ==
  rxResult /= NotDecoded =>
    /\ Received[1] /= statusHeader => rxResult.err = "header"
    /\ ( /\ rxFlip /= NoFlip
         /\ rxFlip[1] \in 2..(statusResponseSize - 1)
         /\ FirstFailure(rxBase) = NoError )
         => rxResult.err = "checksum"

\* a valid response with the top bit of a colour byte flipped was decoded
C30_Witness ==
  /\ rxResult /= NotDecoded
  /\ FirstFailure(rxBase) = NoError
  /\ rxFlip = <<7, 7>>
  /\ rxResult.err = "checksum"

(***************************************************************************)
(* The claims about the private functions, under SpecPure.                 *)
(***************************************************************************)
\* what _prepareBytes returned was decoded as a response
PreparedDecoded == fnName = "_prepareBytes" /\ rxResult /= NotDecoded

\* C31 as claimed: whatever the payload, the decoding of what _prepareBytes
\* returns for it succeeds, and the frame holds the bytes of the payload
C31_Original ==
  PreparedDecoded =>
    /\ rxResult.err = NoError
    /\ SubSeq(rxResult.data.raw, 1, Len(fnArg)) = fnArg

\* C31, amended: what _prepareBytes returns for a payload of 12 bytes passes
\* the checksum check of the decoding; the decoding succeeds exactly when
\* the payload has the header 0x81, a power byte 0x23 or 0x24 and a known
\* mode byte, and then the raw bytes of the frame are the payload, unchanged,
\* followed by the flag and the checksum; otherwise the error is that of
\* the header, the power byte or the mode byte
C31_RoundTrip ==
  PreparedDecoded =>
    /\ rxResult.err /= "checksum"
    /\ rxResult.err = FirstFailure(fnRet[1])
    /\ rxResult.err = NoError <=>
         /\ fnArg[1] = statusHeader
         /\ fnArg[3] \in {35, 36}
         /\ ModeKnown(fnArg[4])
    /\ rxResult.err = NoError =>
         /\ rxResult.data.raw = fnRet[1]
         /\ SubSeq(rxResult.data.raw, 1, Len(fnArg)) = fnArg

\* a payload with header, power byte and mode byte of a response was
\* encoded and decoded
C31_Witness ==
  /\ PreparedDecoded
  /\ fnArg[1] = statusHeader /\ fnArg[4] = 38
  /\ rxResult.err = NoError
  /\ SubSeq(rxResult.data.raw, 1, Len(fnArg)) = fnArg

\* the last byte of the buffer is the sum of the bytes before it, modulo 256
LastIsChecksum(buf) ==
  buf[Len(buf)] = SumBytes(SubSeq(buf, 1, Len(buf) - 1)) % 256

\* C32: for a buffer of n bytes _prepareBytes returns a buffer of n + 2
\* bytes: the n bytes of the input, the flag 0x0F, and the sum of these
\* n + 1 bytes modulo 256; the input buffer is as it was; the last byte of
\* the literals statusRequest, powerOn and powerOff, of 4 bytes each, is
\* the sum of their first three bytes modulo 256 too
C32_PrepareBytes ==
  /\ [](\A lit \in {statusRequest, powerOn, powerOff} :
          Len(lit) = 4 /\ LastIsChecksum(lit))
  /\ []((fnName = "_prepareBytes" /\ fnRet /= <<>>) =>
          LET n == Len(fnArg)
              newBuf == fnRet[1]
          IN  /\ Len(newBuf) = n + 2
              /\ SubSeq(newBuf, 1, n) = fnArg
              /\ newBuf[n + 1] = 15
              /\ LastIsChecksum(newBuf))
  /\ [][fnRet' /= fnRet => fnArg' = fnArg]_pvars

\* a buffer whose sum carries beyond one byte was prepared
C32_Witness ==
  /\ fnName = "_prepareBytes" /\ fnRet /= <<>>
  /\ fnArg = <<255, 255, 113>>
  /\ fnRet[1] = <<255, 255, 113, 15, 126>>

\* the upper end of the range of the flip that is called
FlipMax == IF fnName = "_builtinFlipSpeed" THEN maxBuiltinSpeed ELSE maxCustomSpeed

\* C33: for every integer x, _builtinFlipSpeed applied twice gives x clamped
\* to 0..100, _customFlipSpeed and TcpCustoms.flipSpeed applied twice give x
\* clamped to 0..30, and every result of a flip lies in the range of the flip
C33_FlipInvolution ==
  fnName \in SpeedFns =>
    /\ \A i \in 1..Len(fnRet) : fnRet[i] \in 0..FlipMax
    /\ Len(fnRet) = 2 => fnRet[2] = clamp(fnArg, 0, FlipMax)

\* a speed beyond the range was flipped twice
C33_Witness ==
  /\ fnName = "_builtinFlipSpeed"
  /\ fnArg = maxBuiltinSpeed + SpeedMargin
  /\ fnRet = <<0, maxBuiltinSpeed>>

(***************************************************************************)
(* The claim about the reassembly, under SpecReassemble.                   *)
(***************************************************************************)
\* C34: the bytes that arrive are appended to the 14-byte array at the
\* running offset; with the 14th byte the array is decoded as one response,
\* the array is cleared and the offset is 0 again; after every 'data' the
\* offset is in 0..13; and however the 14 bytes of a response are split
\* into chunks, the callback of status() gets what it gets when they arrive
\* in one chunk, the decoding of the response
C34_Reassembly ==
  /\ statusIndex \in 0..(statusResponseSize - 1)
  /\ inbound /= <<>> =>
       /\ statusIndex + Len(inbound) = statusResponseSize
       /\ SubSeq(statusArray, 1, statusIndex) = SubSeq(rxBase, 1, statusIndex)
       /\ statusCallback /= NoPromise
  /\ inbound = <<>> =>
       /\ statusIndex = 0
       /\ statusArray = ZeroArray
       /\ statusCallback = NoPromise
       /\ last.ev = "data"
       /\ last.args = <<decodeStatus(rxBase).err>>
       /\ last.value = decodeStatus(rxBase).data
       /\ last.outcome =
            IF decodeStatus(rxBase).err = NoError THEN "resolved" ELSE "rejected"

\* a response of a device that runs a function has arrived whole
C34_Witness ==
  /\ rxBase = FrameFunction /\ inbound = <<>>
  /\ statusIndex = 0 /\ statusArray = ZeroArray
  /\ last.outcome = "resolved" /\ last.value.raw = FrameFunction

(***************************************************************************)
(* Further claims about the TcpClient, under Spec.                         *)
(***************************************************************************)
\* C35: the socket is resumed only by a status request and is paused again
\* by the step that handles the response, frame error or not: whenever no
\* status request is outstanding the socket is paused, and the socket a
\* reconnect makes is paused
C35_PausedUnlessStatus ==
  /\ [](statusCallback = NoPromise => paused)
  /\ []((~dead /\ sockState /= "destroyed" /\ ~StatusPending) => paused)
  /\ [][ (paused /\ ~paused') =>
           /\ last'.op = "status" /\ last'.outcome = "pending"
           /\ statusCallback' /= NoPromise ]_vars
  /\ [][ (last' /= last /\ last'.ev = "data" /\ last'.op = "status") =>
           paused' ]_vars
  /\ [][ sockGen' /= sockGen => paused' ]_vars

\* after a reconnect a status request was answered with a frame error
C35_Witness ==
  /\ sockGen = 1 /\ sockState = "open" /\ ~dead
  /\ last.ev = "data" /\ last.op = "status" /\ last.outcome = "rejected"
  /\ statusCallback = NoPromise /\ paused

(***************************************************************************)
(* The claim about the recv function of assembleCommand(), under SpecRecv. *)
(***************************************************************************)
\* the response without the receive prefix, one leading '=' and the receive
\* suffix, each where it is there, and trimmed
Remainder(response, recvPrefix, recvSuffix) ==
  LET r1 == IF startsWith(response, recvPrefix)
            THEN SubSeq(response, Len(recvPrefix) + 1, Len(response))
            ELSE response
      r2 == IF startsWith(r1, <<"=">>) THEN Tail(r1) ELSE r1
      r3 == IF endsWith(r2, recvSuffix)
            THEN SubSeq(r2, 1, Len(r2) - Len(recvSuffix))
            ELSE r2
  IN  trim(r3)

\* C36: recv removes the whole receive prefix, one leading '=' and the
\* whole receive suffix from the response, whatever their lengths, and
\* trims; it returns the empty list for an empty remainder, the remainder
\* split at the commas when the property of the command for the mode is an
\* array, and the list of the remainder alone when it is a string
C36_RecvStrips ==
  (fnName = "recv" /\ fnRet /= <<>>) =>
    LET this == UdpCommands[cmdName][CommandMode(cmdArgs)]
        rest == Remainder(fnArg.response, fnArg.recvPrefix, fnArg.recvSuffix)
    IN  /\ rest = <<>> => fnRet[1] = <<>>
        /\ (rest /= <<>> /\ this = "array") => fnRet[1] = split(rest, ",")
        /\ (rest /= <<>> /\ this = "string") => fnRet[1] = <<rest>>

(***************************************************************************)
(* The claims about the status cache, under SpecCache and Spec.            *)
(***************************************************************************)
\* the frame has a speed exactly when its mode is custom or a function
SpeedRule(frame) ==
  ("speed" \in DOMAIN frame)
    <=> (frame.mode = "custom" \/ IsFunctionMode(frame.mode))

\* status() has resolved with a frame
StatusReturned ==
  last.op = "status" /\ last.outcome = "resolved" /\ last.value /= NullStatus

\* C37: a frame has the field speed exactly when its mode is custom or
\* function:<name>, and not when it is static or other; so it is for every
\* frame status() resolves with, decoded or taken from the cache, and for
\* the cached frame after on(), off() and rgbw() have updated it
C37_SpeedByMode ==
  /\ statusCache /= NullStatus =>
       /\ SpeedRule(statusCache)
       /\ statusCache.mode \in {"static", "other"} =>
            "speed" \notin DOMAIN statusCache
  /\ StatusReturned =>
       /\ SpeedRule(last.value)
       /\ last.value.mode \in {"static", "other"} =>
            "speed" \notin DOMAIN last.value

\* a device reported a function with its speed, rgbw() was called, and
\* status() is answered from the cache
C37_Witness ==
  /\ rxBase[4] = 38
  /\ StatusReturned /\ last.ev = "call"
  /\ last.value.mode = "static" /\ "speed" \notin DOMAIN last.value
  /\ last.value.red /= rxBase[7]

\* C38: a status cache that is not null holds a frame made by a successful
\* validation: its raw field is a buffer of 14 bytes with the header 0x81
\* whose last byte is the checksum of the 13 before it, also after on(),
\* off() and rgbw() have updated the cache
C38_CacheHoldsValidFrame ==
  statusCache /= NullStatus =>
    /\ Len(statusCache.raw) = statusResponseSize
    /\ statusCache.raw[1] = statusHeader
    /\ LastIsChecksum(statusCache.raw)

(***************************************************************************)
(* A further claim about the decoding of a response, under SpecDecode.     *)
(***************************************************************************)
\* the name of the first entry of builtinFunctionMap with this id
FirstNameOf(id) ==
  LET hits == {i \in 1..Len(builtinFunctionMap) : builtinFunctionMap[i][2] = id}
      first == CHOOSE i \in hits : \A j \in hits : i <= j
  IN  builtinFunctionMap[first][1]

\* header, checksum and power byte of the response pass their checks
ReachesModeCheck ==
  /\ rxResult /= NotDecoded
  /\ Received[1] = statusHeader
  /\ ChecksumRight(Received)
  /\ Received[3] \in {35, 36}

\* C39: the mode byte 0x61 decodes to static, never to function:noFunction,
\* although 0x61 is the id of noFunction in builtinFunctionMap; 0x62 decodes
\* to other and 0x60 to custom; any other id of the map decodes to
\* function:<name>, with the name of the first entry of the map with that
\* id; a mode byte that is none of these is rejected as an impossible mode
C39_ModeByte ==
  ReachesModeCheck =>
    LET mode == Received[4]
        inMap == \E i \in 1..Len(builtinFunctionMap) :
                   builtinFunctionMap[i][2] = mode
    IN  IF mode = 97 THEN rxResult.err = NoError /\ rxResult.data.mode = "static"
        ELSE IF mode = 98 THEN rxResult.err = NoError /\ rxResult.data.mode = "other"
        ELSE IF mode = 96 THEN rxResult.err = NoError /\ rxResult.data.mode = "custom"
        ELSE IF inMap
        THEN /\ rxResult.err = NoError
             /\ rxResult.data.mode = "function:" \o FirstNameOf(mode)
        ELSE rxResult.err = "mode" /\ rxResult.data = NullStatus

\* a response with the mode byte 0x61 was decoded
C39_Witness ==
  /\ ReachesModeCheck /\ Received[4] = 97
  /\ builtinFunctionName(97) = "noFunction"
  /\ rxResult.data.mode = "static"

(***************************************************************************)
(* A caller that does not wait: it calls a control operation while the     *)
(* write of an earlier one is not flushed.                                 *)
(***************************************************************************)
ControlCalls ==
  {<<"on", <<>>>>, <<"off", <<>>>>}
    \cup {<<"rgbw", a>> : a \in RgbwArgs}
    \cup {<<"builtin", a>> : a \in BuiltinArgs}
    \cup {<<"custom", <<"jumping", 40, <<nullStep>>>>>>}

control(s, c) ==
  CASE c[1] = "on" -> on(s)
    [] c[1] = "off" -> off(s)
    [] c[1] = "rgbw" -> rgbw(s, c[2])
    [] c[1] = "builtin" -> builtin(s, c[2])
    [] c[1] = "custom" -> custom(s, c[2])

CallControl ==
  \E c \in ControlCalls :
    /\ CanCall /\ CanWrite
    /\ Becomes(control(S, c))

CallControlAgain ==
  \E c \in ControlCalls :
    /\ ~dead /\ sockState = "open"
    /\ writeCbs /= <<>>
    /\ Waiting /= {} /\ Cardinality(Waiting) < MaxOutstanding
    /\ Becomes(control(S, c))

ControlNext ==
  \/ CallConnect
  \/ CallControl
  \/ CallControlAgain
  \/ ConnectOk
  \/ SocketError
  \/ CloseEvent
  \/ DeviceRespond
  \/ Data
  \/ WriteDone
  \/ WriteAbort
  \/ WriteDrop

SpecControl == Init /\ [][ControlNext]_<<vars, fvars, xvars, legacy>>

\* the writes of two control operations are in flight on the socket
TwoInFlight ==
  /\ Len(writeCbs) >= 2
  /\ writeCbs[1].gen = sockGen /\ writeCbs[2].gen = sockGen
  /\ {writeCbs[1].pid, writeCbs[2].pid} \subseteq DOMAIN promises

\* the callback of the first of the writes in flight runs
FirstWriteCompletes ==
  /\ writeCbs /= <<>>
  /\ writeCbs' = Tail(writeCbs)
  /\ last'.ev \in {"written", "aborted"}

\* C40: with two control operations in flight, the completion of the first
\* write does not discard the rejection handler of the second: the client
\* still holds it, and so can hand it over when the socket dies with an
\* error, and neither operation stays pending for ever
C40_SecondHandlerKept ==
  [][TwoInFlight /\ FirstWriteCompletes =>
       disconnectCallback' = writeCbs[2].pid]_<<vars, fvars, xvars, legacy>>

====
